---- MODULE Spec2Model ----
(***************************************************************************)
(* Model of trees/tree_things/perlin.py: the lazily computed, memoized     *)
(* state of PerlinNoiseScreen and NoiseOctave (generator, octave layers,   *)
(* gradient grids, composite gradient, scalar field, stencil and render    *)
(* caches) and the array algorithms behind them.                           *)
(*                                                                         *)
(* Numbers.  numpy floats are modelled as exact extended rationals         *)
(* <<num, den>> in lowest terms with den >= 0; den = 0 encodes the IEEE    *)
(* specials: <<0,0>> is NaN, <<1,0>> is +inf, <<-1,0>> is -inf.  Rounding  *)
(* (float64 arithmetic, the float32 storage of gradient_grid) is not       *)
(* modelled.                                                               *)
(*                                                                         *)
(* Arrays.  An ndarray is a record [shape, data]; data maps every index    *)
(* tuple (0-based, one entry per axis) to its element.  The trailing       *)
(* vector axis of a gradient array is the element: a sequence of           *)
(* `dimensions` numbers.                                                   *)
(*                                                                         *)
(* Optional values (a cached_property not yet computed) are sets: {} is    *)
(* "not computed", {v} is "computed, v".                                   *)
(***************************************************************************)
EXTENDS Integers, Sequences, FiniteSets, TLC

VARIABLES
    params,         \* per instance: the dataclass fields of PerlinNoiseScreen
    generator,      \* per instance: {} or {number of normal variates consumed}
    octave_layers,  \* per instance: {} or {sequence of NoiseOctave records}
    gradient_grid,  \* per instance, per octave: {} or {array of vectors}
    gradient,       \* per instance: {} or {array of vectors}
    scalar_field,   \* per instance: {} or {array of numbers}
    stencil_cache,  \* class-level functools.cache of stencil: set of entries
    render_cache,   \* class-level functools.cache of render_noise: set of entries
    gen_log,        \* history, per instance: its gen_vector invocations, in order
    resample_count, \* history, per instance and (size, normalize): the runs of
                    \* render_noise's body that returned
    last,           \* the last call made and what it returned or raised
    image,          \* the Image widget: its data layers and its pixel cache
    container       \* the SelectionContainer: its children and its selection

vars == <<params, generator, octave_layers, gradient_grid, gradient,
          scalar_field, stencil_cache, render_cache, gen_log, resample_count, last,
          image, container>>

----------------------------------------------------------------------------
(* Bounds of the model *)

MaxSeed == 1
MaxOctaves == 2
MaxDensity == 2
MaxSize == 2
MaxExtent == 4
MaxK == 3

Insts == {"A", "B"}

----------------------------------------------------------------------------
(* Extended rational arithmetic standing in for floating point *)

Abs(x) == IF x < 0 THEN -x ELSE x

Sgn(x) == IF x < 0 THEN -1 ELSE IF x > 0 THEN 1 ELSE 0

RECURSIVE Gcd(_, _)
Gcd(a, b) == IF b = 0 THEN a ELSE Gcd(b, a % b)

\* n/d in lowest terms; n/0 is NaN, +inf or -inf by the sign of n
Reduce(n, d, g) == <<n \div g, d \div g>>

Q(n, d) ==
    IF d = 0 THEN <<Sgn(n), 0>>
    ELSE Reduce(Sgn(d) * n, Abs(d), Gcd(Abs(n), Abs(d)))

QInt(n) == <<n, 1>>
NaN == <<0, 0>>
Zero == <<0, 1>>
One == <<1, 1>>

IsNaN(x) == x = NaN
IsFinite(x) == x[2] # 0

\* (a/b) * (c/d) for b, d # 0, the common factors g1 of a, d and g2 of c, b
\* taken out before multiplying
Cancel(a, b, c, d, g1, g2) == Q((a \div g1) * (c \div g2), (b \div g2) * (d \div g1))

RMul(x, y) ==
    IF IsNaN(x) \/ IsNaN(y) THEN NaN
    ELSE IF x[2] = 0 \/ y[2] = 0 THEN <<Sgn(x[1]) * Sgn(y[1]), 0>>
    ELSE Cancel(x[1], x[2], y[1], y[2], Gcd(Abs(x[1]), y[2]), Gcd(Abs(y[1]), x[2]))

\* a/b + c/d for b, d # 0 over the least common denominator, g = gcd(b, d)
AddOver(a, b, c, d, g) == Q(a * (d \div g) + c * (b \div g), (b \div g) * d)

RAdd(x, y) ==
    IF IsNaN(x) \/ IsNaN(y) THEN NaN
    ELSE IF x[2] = 0 /\ y[2] = 0 THEN (IF x = y THEN x ELSE NaN)
    ELSE IF x[2] = 0 THEN x
    ELSE IF y[2] = 0 THEN y
    ELSE AddOver(x[1], x[2], y[1], y[2], Gcd(x[2], y[2]))

RNeg(x) == <<-x[1], x[2]>>

RSub(x, y) == RAdd(x, RNeg(y))

\* IEEE division: x/0 is NaN for x = 0 and a signed infinity otherwise;
\* numpy warns and does not raise
RDiv(x, y) ==
    IF IsNaN(x) \/ IsNaN(y) THEN NaN
    ELSE IF x[2] = 0 /\ y[2] = 0 THEN NaN
    ELSE IF y[2] = 0 THEN Zero
    ELSE IF x[2] = 0 THEN <<x[1] * (IF y[1] < 0 THEN -1 ELSE 1), 0>>
    ELSE IF y[1] = 0 THEN <<Sgn(x[1]), 0>>
    ELSE Cancel(x[1], x[2], y[2], y[1], Gcd(Abs(x[1]), Abs(y[1])), Gcd(y[2], x[2]))

\* x < y for numbers that are not NaN
LessOver(a, b, c, d, g) == a * (d \div g) < c * (b \div g)

RLess(x, y) ==
    IF x[2] = 0 /\ y[2] = 0 THEN x[1] < y[1]
    ELSE IF x[2] = 0 THEN x[1] < 0
    ELSE IF y[2] = 0 THEN y[1] > 0
    ELSE LessOver(x[1], x[2], y[1], y[2], Gcd(x[2], y[2]))

RLeq(x, y) == x = y \/ RLess(x, y)

----------------------------------------------------------------------------
(* Index tuples and vectors *)

RECURSIVE Prod(_)
Prod(s) == IF s = <<>> THEN 1 ELSE s[1] * Prod(Tail(s))

RECURSIVE Pow(_, _)
Pow(b, e) == IF e = 0 THEN 1 ELSE b * Pow(b, e - 1)

\* np.ndindex(shape) / product(*[range(d) for d in shape]) as a set
RECURSIVE Ndindex(_)
Ndindex(s) ==
    IF s = <<>> THEN {<<>>}
    ELSE {<<i>> \o r : i \in 0..(s[1] - 1), r \in Ndindex(Tail(s))}

\* position of idx in the row-major iteration over shape s, from 0
RECURSIVE RowMajorRank(_, _)
RowMajorRank(idx, s) ==
    IF s = <<>> THEN 0
    ELSE idx[1] * Prod(Tail(s)) + RowMajorRank(Tail(idx), Tail(s))

\* the same iteration as a sequence: element k+1 is the index of rank k
RowMajor(s) ==
    [k \in 1..Prod(s) |-> CHOOSE idx \in Ndindex(s) : RowMajorRank(idx, s) = k - 1]

VAdd(u, v) == [c \in DOMAIN u |-> RAdd(u[c], v[c])]

VScale(a, v) == [c \in DOMAIN v |-> RMul(a, v[c])]

RECURSIVE RSum(_)
RSum(s) == IF s = <<>> THEN Zero ELSE RAdd(s[1], RSum(Tail(s)))

\* np.dot of two vectors
Dot(u, v) == RSum([c \in DOMAIN u |-> RMul(u[c], v[c])])

----------------------------------------------------------------------------
(* PerlinNoiseScreen's presets for variance_func and magnitude_func, and one
   caller-supplied function (lambda n: 0.0) *)

constant(n) == One

linear(n) == RAdd(Q(n, 2), One)

quadratic(n) == RAdd(Q(n * n, 2), One)

falloff(n) == RDiv(One, RAdd(QInt(n * n), Q(1, 2)))

ApplyFunc(f, n) ==
    CASE f = "constant" -> constant(n)
      [] f = "linear" -> linear(n)
      [] f = "quadratic" -> quadratic(n)
      [] f = "falloff" -> falloff(n)
      [] f = "zero" -> Zero

----------------------------------------------------------------------------
(* The seeded generator.  random.default_rng(seed) is a deterministic stream
   of variates fixed by the seed; the stream of standard normal variates is
   replaced by a small fixed table read at (seed, position). *)

ZTable == <<1, -2, 2, -1, -1, 1, 2, -2, 2, 1, -1, -2, -2, -1, 1, 2, 1>>

StdNormal(seed, pos) ==
    ZTable[((seed * 5 + pos * 3 + (pos \div 4) + (pos \div 7) * 2) % Len(ZTable)) + 1]

\* generator.normal(loc=0.0, scale=scale, size=size) read at position pos
Normal(seed, pos, scale, size) ==
    [c \in 1..size |-> RMul(scale, QInt(StdNormal(seed, pos + c - 1)))]

----------------------------------------------------------------------------
(* NoiseOctave *)

\* a scale factor that grows linearly with the octave index
density_scale_factor_linear(layer) == layer.density * (layer.octave + 1)

density_scale_factor(layer) == Pow(layer.density, layer.octave)

shape(layer) ==
    [d \in DOMAIN layer.top_shape |-> layer.top_shape[d] * density_scale_factor(layer)]

\* (magnitude / np.sum(vec ** 2)) * vec
ScaleVector(magnitude, vec) ==
    VScale(RDiv(magnitude, RSum([c \in DOMAIN vec |-> RMul(vec[c], vec[c])])), vec)

\* the vector gen_vector returns when the generator stands at position pos
gen_vector(layer, seed, pos) ==
    ScaleVector(layer.magnitude, Normal(seed, pos, layer.variance, layer.dimensions))

\* the array gradient_grid builds when first read with the generator at pos:
\* one gen_vector call per node, in the order of product(*ranges)
GenerateGrid(layer, seed, pos) ==
    LET s == shape(layer)
    IN [shape |-> s,
        data |-> [idx \in Ndindex(s) |->
                    gen_vector(layer, seed,
                               pos + RowMajorRank(idx, s) * layer.dimensions)]]

\* the gen_vector invocations of that build, in order
GenerateCalls(inst, layer) ==
    LET order == RowMajor(shape(layer))
    IN [k \in DOMAIN order |-> [inst |-> inst, octave |-> layer.octave, idx |-> order[k]]]

\* linspace(0, 1, num)[j] (num = 1 gives the single point 0)
Linspace(num, j) == IF num = 1 THEN Zero ELSE Q(j, num - 1)

\* NoiseOctave.points: the coordinates of the octave's own nodes
points(layer) ==
    LET s == shape(layer)
    IN [shape |-> s,
        data |-> [idx \in Ndindex(s) |-> [a \in DOMAIN s |-> Linspace(s[a], idx[a])]]]

\* an interpolator that takes every query point
InBounds_Unchecked(num, x) == TRUE

\* RegularGridInterpolator(bounds_error=True): is x inside the axis
\* linspace(0, 1, num)
InBounds(num, x) == RLeq(Linspace(num, 0), x) /\ RLeq(x, Linspace(num, num - 1))

\* the grid interval that holds x on the axis linspace(0, 1, num): the index
\* of its lower node, clipped to 0..num-2
IntervalOf(num, x) ==
    IF num = 1 THEN 0
    ELSE LET f == (x[1] * (num - 1)) \div x[2]
         IN IF f > num - 2 THEN num - 2 ELSE IF f < 0 THEN 0 ELSE f

\* the normalised distance of x from the lower node of its interval
NormDist(num, x) ==
    IF num = 1 THEN Zero
    ELSE RSub(RMul(x, QInt(num - 1)), QInt(IntervalOf(num, x)))

\* the weights with the two ends of every axis exchanged
Weight_Swapped(t, c) ==
    LET w[a \in 0..Len(c)] ==
            IF a = 0 THEN One
            ELSE RMul(w[a - 1], IF c[a] = 1 THEN RSub(One, t[a]) ELSE t[a])
    IN w[Len(c)]

\* the weight of corner c of the interval cell: the product over the axes of
\* t[a] for the upper node and 1 - t[a] for the lower
Weight(t, c) ==
    LET w[a \in 0..Len(c)] ==
            IF a = 0 THEN One
            ELSE RMul(w[a - 1], IF c[a] = 1 THEN t[a] ELSE RSub(One, t[a]))
    IN w[Len(c)]

\* the sum over the corners of weight * node value; lo holds the lower node
\* of the cell and t the normalised distances.  A corner on the upper side of
\* an axis of length one does not exist and is left out.
InterpolateCell(values, lo, t, corners) ==
    LET n == Len(values.shape)
        acc[k \in 0..Len(corners)] ==
            IF k = 0 THEN [a \in 1..n |-> Zero]
            ELSE IF \E a \in 1..n : corners[k][a] = 1 /\ values.shape[a] = 1
                 THEN acc[k - 1]
            ELSE VAdd(acc[k - 1],
                      VScale(Weight(t, corners[k]),
                             values.data[[a \in 1..n |-> lo[a] + corners[k][a]]]))
    IN acc[Len(corners)]

\* multilinear interpolation of the array values on linspace(0,1) axes at x
InterpolateAt(values, x) ==
    InterpolateCell(values,
                    [a \in 1..Len(x) |-> IntervalOf(values.shape[a], x[a])],
                    [a \in 1..Len(x) |-> NormDist(values.shape[a], x[a])],
                    [k \in 1..Pow(2, Len(x)) |->
                        [a \in 1..Len(x) |-> ((k - 1) \div Pow(2, Len(x) - a)) % 2]])

\* interpolated_gradient(pts) on the octave's grid: the array of interpolated
\* vectors, or the ValueError of a query point outside the grid
interpolated_gradient(layer, grid, pts) ==
    LET s == shape(layer)
        ok == \A idx \in DOMAIN pts.data : \A a \in DOMAIN s :
                 InBounds(s[a], pts.data[idx][a])
    IN IF ~ok THEN [raised |-> "ValueError", value |-> {}]
       ELSE [raised |-> "",
             value |-> {[shape |-> pts.shape,
                         data |-> [idx \in DOMAIN pts.data |->
                                     InterpolateAt(grid, pts.data[idx])]]}]

----------------------------------------------------------------------------
(* PerlinNoiseScreen: the lazily computed properties.  A call works on the
   instance's cached properties, gathered in a record

       [generator, octave_layers, gradient_grid, gradient, scalar_field, log]

   where log collects the gen_vector invocations the call makes. *)

dimensions(p) == Len(p.shape)

\* the list octave_layers builds
BuildLayers(p) ==
    [k \in 1..p.octaves |->
        [octave |-> k - 1,
         dimensions |-> dimensions(p),
         top_shape |-> p.shape,
         density |-> p.density,
         magnitude |-> ApplyFunc(p.magnitude_func, k - 1),
         variance |-> ApplyFunc(p.variance_func, k - 1)]]

\* reading self.octave_layers: built on the first read, which is also the
\* first read of self.generator (default_rng(seed), nothing consumed yet)
WithLayers(s, p) ==
    IF s.octave_layers # {} THEN s
    ELSE [s EXCEPT !.generator = IF @ = {} THEN {0} ELSE @,
                   !.octave_layers = {BuildLayers(p)}]

Layers(s) == CHOOSE l \in s.octave_layers : TRUE

GenPos(s) == CHOOSE g \in s.generator : TRUE

\* a gradient_grid property without its memo: every read generates
WithGrid_NoMemo(s, p, inst, o) ==
    LET layer == Layers(s)[o + 1]
    IN [s EXCEPT !.gradient_grid[o] = {GenerateGrid(layer, p.seed, GenPos(s))},
                 !.generator = {GenPos(s) + Prod(shape(layer)) * layer.dimensions},
                 !.log = @ \o GenerateCalls(inst, layer)]

\* reading octave_layers[o].gradient_grid on an instance whose layers exist:
\* generated on the first read from the shared generator, memoized after
WithGrid(s, p, inst, o) ==
    IF s.gradient_grid[o] # {} THEN s
    ELSE LET layer == Layers(s)[o + 1]
         IN [s EXCEPT !.gradient_grid[o] = {GenerateGrid(layer, p.seed, GenPos(s))},
                      !.generator = {GenPos(s) + Prod(shape(layer)) * layer.dimensions},
                      !.log = @ \o GenerateCalls(inst, layer)]

Grid(s, o) == CHOOSE g \in s.gradient_grid[o] : TRUE

\* the list comprehension of gradient: layers o, o+1, .. octaves-2 in turn,
\* each read of interpolated_gradient first reading that layer's
\* gradient_grid; acc is the list built so far.  The first query that raises
\* ends the call.
RECURSIVE InterpolateLayers(_, _, _, _, _)

\* r is what layer o's interpolated_gradient gave on the instance s1
InterpolateStep(s1, p, inst, o, acc, r) ==
    IF r.raised # "" THEN [s |-> s1, raised |-> r.raised, value |-> <<>>]
    ELSE InterpolateLayers(s1, p, inst, o + 1, Append(acc, CHOOSE v \in r.value : TRUE))

\* s1 is the instance after layer o's gradient_grid was read
InterpolateLayer(s1, p, inst, o, acc) ==
    InterpolateStep(s1, p, inst, o, acc,
                    interpolated_gradient(Layers(s1)[o + 1], Grid(s1, o),
                                          points(Layers(s1)[p.octaves])))

InterpolateLayers(s, p, inst, o, acc) ==
    IF o >= p.octaves - 1 THEN [s |-> s, raised |-> "", value |-> acc]
    ELSE InterpolateLayer(WithGrid(s, p, inst, o), p, inst, o, acc)

\* a sum that keeps only the last array of the list
SumArrays_LastOnly(list) == list[Len(list)]

\* gradients.sum(axis=0) over a list of equally shaped arrays of vectors
SumArrays(list) ==
    LET acc[k \in 1..Len(list)] ==
            IF k = 1 THEN list[1]
            ELSE [shape |-> list[1].shape,
                  data |-> [idx \in DOMAIN list[1].data |->
                              VAdd(acc[k - 1].data[idx], list[k].data[idx])]]
    IN acc[Len(list)]

\* reading self.gradient: [s, raised]; s.gradient is set unless it raised
\* s2 is the instance after the highest octave's gradient_grid was read, list
\* the interpolated gradients of the octaves below it
SumGradients(s2, p, list) ==
    [s |-> [s2 EXCEPT !.gradient =
               {SumArrays(Append(list, Grid(s2, p.octaves - 1)))}],
     raised |-> ""]

\* r is the outcome of the list comprehension
HighestOctave(r, p, inst) ==
    IF r.raised # "" THEN [s |-> r.s, raised |-> r.raised]
    ELSE SumGradients(WithGrid(r.s, p, inst, p.octaves - 1), p, r.value)

WithGradient(s, p, inst) ==
    IF s.gradient # {} THEN [s |-> s, raised |-> ""]
    ELSE HighestOctave(InterpolateLayers(WithLayers(s, p), p, inst, 0, <<>>), p, inst)

----------------------------------------------------------------------------
(* Kernel integration *)

\* scipy.integrate.simpson(y) with dx = 1 over the samples y (a sequence):
\* no interval for one sample, the trapezoid for two, Simpson's rule for
\* three.  No window of kernel_method hands it more.
simpson(y) ==
    CASE Len(y) = 1 -> Zero
      [] Len(y) = 2 -> RMul(Q(1, 2), RAdd(y[1], y[2]))
      [] Len(y) = 3 -> RMul(Q(1, 3), RAdd(y[1], RAdd(RMul(QInt(4), y[2]), y[3])))

\* index with the entry of axis i replaced by v
SetAxis(index, i, v) == [index EXCEPT ![i] = v]

\* the term simpson(grad_window[...slices..., i])[0] for axis i at index: the
\* slice takes samples 0..index[i]-1 along axis i and the single position
\* index[j] along every other axis j; simpson integrates along the LAST
\* spatial axis of that sub-array, and [0] takes the first entry of what is
\* left.  A sub-array of one axis integrates to a scalar, which [0] cannot
\* index; an empty last axis cannot be integrated.
IntegralTerm(grad_window, index, i) ==
    LET W == grad_window.shape
        n == Len(W)
        count == IF index[i] < W[i] THEN index[i] ELSE W[i]
    IN IF n = 1 THEN [raised |-> "IndexError", value |-> Zero]
       ELSE IF \E j \in 1..n : j # i /\ index[j] >= W[j]
            THEN [raised |-> "IndexError", value |-> Zero]
       ELSE IF i = n
            THEN [raised |-> "",
                  value |-> simpson([k \in 1..count |->
                                grad_window.data[SetAxis(index, n, k - 1)][n]])]
       ELSE [raised |-> "",
             value |-> simpson(<<grad_window.data[SetAxis(index, i, 0)][i]>>)]

\* a kernel that reads the cell one step lower along the axis
KernelGrid_AdjacentCell(gshape, value, T) ==
    LET n == Len(gshape)
        grid[index \in Ndindex(gshape)] ==
            IF \A i \in 1..n : index[i] = 0 THEN value
            ELSE LET acc[i \in 0..n] ==
                        IF i = 0 THEN Zero
                        ELSE IF index[i] > 0
                             THEN RAdd(acc[i - 1],
                                       RAdd(grid[SetAxis(index, i, index[i] - 1)],
                                            T[index][i].value))
                        ELSE acc[i - 1]
                 IN acc[n]
    IN grid

\* integrate_kernel(grad_window, value): [raised, value]; value is the
\* wsize^n array, wsize the window's extent along its first axis
\* the grid integrate_kernel fills, T[index][i] the integral term of axis i at
\* index.  Cells are filled in row-major order, so the cell read for axis i
\* (entry i set to 0) is final when it is read.
KernelGrid(gshape, value, T) ==
    LET n == Len(gshape)
        grid[index \in Ndindex(gshape)] ==
            IF \A i \in 1..n : index[i] = 0 THEN value
            ELSE LET acc[i \in 0..n] ==
                        IF i = 0 THEN Zero
                        ELSE IF index[i] > 0
                             THEN RAdd(acc[i - 1],
                                       RAdd(grid[SetAxis(index, i, 0)], T[index][i].value))
                        ELSE acc[i - 1]
                 IN acc[n]
    IN grid

KernelOf(gshape, value, T) ==
    IF \E index \in Ndindex(gshape) : \E i \in DOMAIN gshape :
          index[i] > 0 /\ T[index][i].raised # ""
    THEN [raised |-> "IndexError", value |-> {}]
    ELSE [raised |-> "", value |-> {[shape |-> gshape, data |-> KernelGrid(gshape, value, T)]}]

integrate_kernel(grad_window, value) ==
    KernelOf([a \in DOMAIN grad_window.shape |-> grad_window.shape[1]], value,
             [index \in Ndindex([a \in DOMAIN grad_window.shape |-> grad_window.shape[1]]) |->
                [i \in DOMAIN grad_window.shape |->
                    \* if b > 0
                    IF index[i] > 0 THEN IntegralTerm(grad_window, index, i)
                    ELSE [raised |-> "", value |-> Zero]]])

\* np.tile(a, 2 along every spatial axis) read at index e
Tiled(a, e) == a.data[[j \in DOMAIN e |-> e[j] % a.shape[j]]]

\* the extent of the window slice(d, d + wsize) inside the doubled buffer
WShape(gs, wsize, d) ==
    [a \in DOMAIN gs |-> IF d[a] + wsize <= 2 * gs[a] THEN wsize ELSE 2 * gs[a] - d[a]]

\* ex_grad[window]: the window of the tiled gradient at d
Window(grad, wshape, d) ==
    [shape |-> wshape,
     data |-> [w \in Ndindex(wshape) |-> Tiled(grad, [a \in DOMAIN d |-> d[a] + w[a]])]]

\* what the kernel of the window at d, divided by wsize ** n, adds to
\* ex_grid[e]
Contribution(gs, wsize, K, d, e) ==
    IF \A a \in DOMAIN gs : d[a] <= e[a] /\ e[a] < d[a] + WShape(gs, wsize, d)[a]
    THEN RDiv((CHOOSE k \in K[d].value : TRUE).data[[a \in DOMAIN gs |-> e[a] - d[a]]],
              QInt(Pow(wsize, Len(gs))))
    ELSE Zero

\* ex_grid after the loop over the windows, K[d] the kernel of the window at d
ExGrid(gs, wsize, K, order) ==
    [e \in Ndindex([a \in DOMAIN gs |-> 2 * gs[a]]) |->
        RSum([k \in DOMAIN order |-> Contribution(gs, wsize, K, order[k], e)])]

\* grid = ex_grid[:shape]; then for each axis i the overflow
\* ex_grid[shape_i : shape_i + wsize] (other axes inside the base region) is
\* added onto grid[:wsize] along that axis
Fold(gs, wsize, ex_grid) ==
    [q \in Ndindex(gs) |->
        RAdd(ex_grid[q],
             RSum([i \in DOMAIN gs |->
                     IF q[i] < wsize THEN ex_grid[SetAxis(q, i, q[i] + gs[i])]
                     ELSE Zero]))]

\* K[d] is the outcome of integrate_kernel on the window at d.  ex_grid[window]
\* += kernel broadcasts only equal shapes.
KernelSum(gs, wsize, K) ==
    IF \E d \in Ndindex(gs) : K[d].raised # ""
    THEN [raised |-> "IndexError", value |-> {}]
    ELSE IF \E d \in Ndindex(gs) : \E a \in DOMAIN gs :
                WShape(gs, wsize, d)[a] # WShape(gs, wsize, d)[1]
    THEN [raised |-> "ValueError", value |-> {}]
    ELSE [raised |-> "",
          value |-> {[shape |-> gs,
                      data |-> Fold(gs, wsize, ExGrid(gs, wsize, K, RowMajor(gs)))]}]

\* kernel_method(gradient, wsize): [raised, value].  grid[index], the seed
\* value of each kernel, is read from the zero array, never from ex_grid.
kernel_method(grad, wsize) ==
    KernelSum(grad.shape, wsize,
              [d \in Ndindex(grad.shape) |->
                  integrate_kernel(Window(grad, WShape(grad.shape, wsize, d), d), Zero)])

\* ndarray.max() and .min() of a non-empty array of numbers; NaN propagates
ArrayMax(a) ==
    IF \E idx \in DOMAIN a.data : IsNaN(a.data[idx]) THEN NaN
    ELSE CHOOSE m \in {a.data[idx] : idx \in DOMAIN a.data} :
            \A idx \in DOMAIN a.data : RLeq(a.data[idx], m)

ArrayMin(a) ==
    IF \E idx \in DOMAIN a.data : IsNaN(a.data[idx]) THEN NaN
    ELSE CHOOSE m \in {a.data[idx] : idx \in DOMAIN a.data} :
            \A idx \in DOMAIN a.data : RLeq(m, a.data[idx])

\* a normalisation that guards the zero range
Rescale_Guarded(a) ==
    LET lo == ArrayMin(a)
        delta == RSub(ArrayMax(a), lo)
    IN [shape |-> a.shape,
        data |-> [idx \in DOMAIN a.data |->
                    IF delta = Zero THEN Zero ELSE RDiv(RSub(a.data[idx], lo), delta)]]

\* a normalisation that divides by the maximum instead of the range
Rescale_ByMax(a) ==
    LET lo == ArrayMin(a)
    IN [shape |-> a.shape,
        data |-> [idx \in DOMAIN a.data |-> RDiv(RSub(a.data[idx], lo), ArrayMax(a))]]

\* (a - a.min()) / (a.max() - a.min()); no guard for a zero range
Rescale(a) ==
    LET lo == ArrayMin(a)
        delta == RSub(ArrayMax(a), lo)
    IN [shape |-> a.shape,
        data |-> [idx \in DOMAIN a.data |-> RDiv(RSub(a.data[idx], lo), delta)]]

\* reading self.scalar_field: [s, raised]; s.scalar_field is set unless it raised
\* field is the outcome of kernel_method on the gradient of s
NormalizeField(s, field) ==
    IF field.raised # "" THEN [s |-> s, raised |-> field.raised]
    ELSE [s |-> [s EXCEPT !.scalar_field = {Rescale(CHOOSE a \in field.value : TRUE)}],
          raised |-> ""]

\* g is the outcome of reading self.gradient
FieldOfGradient(g) ==
    IF g.raised # "" THEN g
    ELSE NormalizeField(g.s, kernel_method(CHOOSE a \in g.s.gradient : TRUE, 3))

WithScalarField(s, p, inst) ==
    IF s.scalar_field # {} THEN [s |-> s, raised |-> ""]
    ELSE FieldOfGradient(WithGradient(s, p, inst))

\* a render that goes through the scalar field before it reads the gradient
GradientForRender_ViaScalarField(s, p, inst) == WithScalarField(s, p, inst)

\* what render_noise reads of the field's cached properties: self.gradient,
\* for the shape of final and for the nodes of every cell
GradientForRender(s, p, inst) == WithGradient(s, p, inst)

----------------------------------------------------------------------------
(* Stencil and render *)

\* floor of the square root of a natural number
ISqrt(m) == CHOOSE r \in 0..(m + 1) : r * r <= m /\ (r + 1) * (r + 1) > m

\* square root, exact on squares of rationals and otherwise cut to 1/100
ExactOr(x, rn, rd) ==
    IF rn * rn = x[1] /\ rd * rd = x[2] THEN Q(rn, rd)
    ELSE Q(ISqrt((x[1] * 10000) \div x[2]), 100)

Sqrt(x) == ExactOr(x, ISqrt(x[1]), ISqrt(x[2]))

\* np.linalg.norm of a vector
VNorm(v) == Sqrt(RSum([c \in DOMAIN v |-> RMul(v[c], v[c])]))

\* the c-th element of product([1, -1], repeat=n), c from 0
Signs(n, c) == [a \in 1..n |-> IF (c \div Pow(2, n - a)) % 2 = 0 THEN 1 ELSE -1]

\* stencil(k) for a field of n dimensions: [raised, value]; value is the list
\* of (pos, cube) pairs
\* base_cube sliced with step unit along each axis, component i multiplied
\* by unit
Flipped(n, k, unit) ==
    [idx \in Ndindex([a \in 1..n |-> k]) |->
        [a \in 1..n |->
            IF unit[a] = 1 THEN Linspace(k, idx[a])
            ELSE RNeg(Linspace(k, k - 1 - idx[a]))]]

Pos(unit) == [a \in DOMAIN unit |-> IF unit[a] < 0 THEN 1 ELSE 0]

Square(d) == RMul(d, d)

\* v / ((np.linalg.norm(v) + 0.05) ** 2)
Shrink(v) == VScale(RDiv(One, Square(RAdd(VNorm(v), Q(5, 100)))), v)

\* cube[pos] /= (norm(cube[pos]) + 0.05) ** 2
Cube(cube, pos) == [cube EXCEPT ![pos] = Shrink(@)]

stencil(n, k) ==
    \* cube[pos] is outside a cube of extent k = 1 when pos has a 1
    IF \E c \in 0..(Pow(2, n) - 1) : \E a \in 1..n : Pos(Signs(n, c))[a] >= k
    THEN [raised |-> "IndexError", value |-> <<>>]
    ELSE [raised |-> "",
          value |-> [c \in 1..Pow(2, n) |->
                       [pos |-> Pos(Signs(n, c - 1)),
                        cube |-> [shape |-> [a \in 1..n |-> k],
                                  data |-> Cube(Flipped(n, k, Signs(n, c - 1)),
                                                Pos(Signs(n, c - 1)))]]]]

\* an equality that leaves variance_func out of the comparison
FieldEq_FiveFields(p, q) ==
    <<p.shape, p.seed, p.octaves, p.density, p.magnitude_func>>
      = <<q.shape, q.seed, q.octaves, q.density, q.magnitude_func>>

\* dataclass __eq__: the tuples of all six fields are compared
FieldEq(p, q) ==
    <<p.shape, p.seed, p.octaves, p.density, p.variance_func, p.magnitude_func>>
      = <<q.shape, q.seed, q.octaves, q.density, q.variance_func, q.magnitude_func>>

\* __hash__: the hash of this tuple (the tuple stands for its hash)
FieldHash(p) == <<p.shape, p.seed, p.octaves, p.density>>

\* the functools.cache key of a method call: self, the positional arguments
\* as passed and the keyword arguments as passed; defaults are not filled in
MakeKey(p, args, kwargs) == [self |-> p, args |-> args, kwargs |-> kwargs]

\* the dictionary lookup of a key: equal hash, then equal
KeyMatch(k1, k2) ==
    /\ FieldHash(k1.self) = FieldHash(k2.self)
    /\ FieldEq(k1.self, k2.self)
    /\ k1.args = k2.args
    /\ k1.kwargs = k2.kwargs

\* a lookup that never finds an entry
Lookup_NoCache(cache, key) == {}

Lookup(cache, key) == {e \in cache : KeyMatch(e.key, key)}

\* self.stencil(k) through its cache: [cache, raised, value, hit]
StencilMiss(cache, key, r) ==
    IF r.raised # ""
    THEN [cache |-> cache, raised |-> r.raised, hit |-> FALSE, value |-> <<>>]
    ELSE [cache |-> cache \cup {[key |-> key, value |-> r.value]},
          raised |-> "", hit |-> FALSE, value |-> r.value]

StencilFound(cache, key, found, n, k) ==
    IF found # {}
    THEN [cache |-> cache, raised |-> "", hit |-> TRUE,
          value |-> (CHOOSE e \in found : TRUE).value]
    ELSE StencilMiss(cache, key, stencil(n, k))

StencilKeyed(cache, key, n, k) == StencilFound(cache, key, Lookup(cache, key), n, k)

CachedStencil(cache, p, k) == StencilKeyed(cache, MakeKey(p, <<k>>, <<>>), dimensions(p), k)

\* a sum in which every corner reads the gradient of the cell's first node
Val_FirstNode(G, corners, cell, w) ==
    RSum([c \in DOMAIN corners |-> Dot(corners[c].cube.data[w], G.data[cell])])

\* the body of render_noise on the composite gradient G: [raised, value,
\* cache (the stencil cache after it), resampled (the body ran to its return)]
\* val[w] for the cell: the sum over the corners of np.dot(cube, g[pos])
Val(G, corners, cell, w) ==
    RSum([c \in DOMAIN corners |->
            Dot(corners[c].cube.data[w],
                G.data[[a \in DOMAIN cell |-> cell[a] + corners[c].pos[a]]])])

\* val[::-1, ::-1]: the first two axes reversed
Reversed(size, w) == [a \in DOMAIN w |-> IF a <= 2 THEN size - 1 - w[a] ELSE w[a]]

\* final after the loop over the cells: the block of a cell holds its val
Final(G, corners, fshape, size) ==
    [shape |-> fshape,
     data |-> [f \in Ndindex(fshape) |->
                 Val(G, corners, [a \in DOMAIN f |-> f[a] \div size],
                     Reversed(size, [a \in DOMAIN f |-> f[a] % size]))]]

\* if normalize: (final - final.min()) / r
Normalized(final, normalize) == IF normalize THEN Rescale(final) ELSE final

\* st is the outcome of self.stencil(size) on the first cell
RenderCells(G, st, fshape, cache, size, normalize) ==
    IF Ndindex([a \in DOMAIN G.shape |-> G.shape[a] - 1]) = {}
    THEN IF normalize
         THEN [raised |-> "ValueError", value |-> {}, cache |-> cache,
               resampled |-> FALSE]
         ELSE [raised |-> "", value |-> {[shape |-> fshape, data |-> <<>>]},
               cache |-> cache, resampled |-> TRUE]
    ELSE IF st.raised # ""
    THEN [raised |-> st.raised, value |-> {}, cache |-> st.cache, resampled |-> FALSE]
    ELSE IF Len(G.shape) < 2
    THEN [raised |-> "IndexError", value |-> {}, cache |-> st.cache,
          resampled |-> FALSE]
    ELSE [raised |-> "", cache |-> st.cache, resampled |-> TRUE,
          value |-> {Normalized(Final(G, st.value, fshape, size), normalize)}]

RenderBody(G, p, cache, size, normalize) ==
    RenderCells(G, CachedStencil(cache, p, size),
                [a \in DOMAIN G.shape |-> (G.shape[a] - 1) * size],
                cache, size, normalize)

---------------------------------------------------------------------------------------------------------------------------------------------------
(* Inputs *)

Shapes == {<<2, 2>>, <<1, 1>>, <<2>>}
Seeds == 0..MaxSeed
MagnitudeFuncs == {"constant", "linear", "zero"}
VarianceFuncs == {"constant", "falloff"}
Sizes == 1..MaxSize
Forms == {"default", "positional", "keyword"}

\* the extent of the finest octave's grid along axis a
FinestExtent(p, a) == p.shape[a] * Pow(p.density, p.octaves - 1)

Params ==
    {p \in [shape : Shapes, seed : Seeds, octaves : 1..MaxOctaves,
            density : 1..MaxDensity, variance_func : VarianceFuncs,
            magnitude_func : MagnitudeFuncs] :
        \A a \in DOMAIN p.shape : FinestExtent(p, a) <= MaxExtent}

\* no Image has been created yet; the SelectionContainer is as Frame
\* constructs it, with no children and nothing selected
NoImage == [cls |-> "", size |-> <<>>, data_layers |-> <<>>, cached |-> {},
            setters |-> {}, open |-> 0, touched |-> FALSE]
NoContainer == [children |-> <<>>, managed |-> {}, current_selected |-> {}]

NoCall == [op |-> "", inst |-> "", args |-> <<>>, raised |-> "", hit |-> FALSE, ret |-> {}]

----------------------------------------------------------------------------
(* State machine *)

\* a constructor that creates the generators at once
Constructed2_EagerGenerator(p, q) ==
    /\ params = [i \in Insts |-> IF i = "A" THEN p ELSE q]
    /\ generator = [i \in Insts |-> {0}]
    /\ octave_layers = [i \in Insts |-> {}]
    /\ gradient_grid = [i \in Insts |-> [o \in 0..(params[i].octaves - 1) |-> {}]]
    /\ gradient = [i \in Insts |-> {}]
    /\ scalar_field = [i \in Insts |-> {}]
    /\ stencil_cache = {}
    /\ render_cache = {}
    /\ gen_log = [i \in Insts |-> <<>>]
    /\ resample_count = [i \in Insts |-> [c \in Sizes \X BOOLEAN |-> 0]]
    /\ last = NoCall
    /\ image = NoImage
    /\ container = NoContainer

\* PerlinNoiseScreen(...) stores its six fields and computes nothing; the two
\* instances are constructed independently, A from the arguments p and B
\* from the arguments q
Constructed2(p, q) ==
    /\ params = [i \in Insts |-> IF i = "A" THEN p ELSE q]
    /\ generator = [i \in Insts |-> {}]
    /\ octave_layers = [i \in Insts |-> {}]
    /\ gradient_grid = [i \in Insts |-> [o \in 0..(params[i].octaves - 1) |-> {}]]
    /\ gradient = [i \in Insts |-> {}]
    /\ scalar_field = [i \in Insts |-> {}]
    /\ stencil_cache = {}
    /\ render_cache = {}
    /\ gen_log = [i \in Insts |-> <<>>]
    /\ resample_count = [i \in Insts |-> [c \in Sizes \X BOOLEAN |-> 0]]
    /\ last = NoCall
    /\ image = NoImage
    /\ container = NoContainer

Constructed(p) == Constructed2(p, p)

Local(i) ==
    [generator |-> generator[i], octave_layers |-> octave_layers[i],
     gradient_grid |-> gradient_grid[i], gradient |-> gradient[i],
     scalar_field |-> scalar_field[i], log |-> <<>>]

\* the instance's cached properties after a call, and the calls it logged
Store(i, s) ==
    /\ generator' = [generator EXCEPT ![i] = s.generator]
    /\ octave_layers' = [octave_layers EXCEPT ![i] = s.octave_layers]
    /\ gradient_grid' = [gradient_grid EXCEPT ![i] = s.gradient_grid]
    /\ gradient' = [gradient EXCEPT ![i] = s.gradient]
    /\ scalar_field' = [scalar_field EXCEPT ![i] = s.scalar_field]
    /\ gen_log' = [gen_log EXCEPT ![i] = @ \o s.log]

\* field.octave_layers[o].gradient_grid
Returned(i, s, call) ==
    /\ Store(i, s)
    /\ last' = call

ReadGradientGrid(i, o) ==
    /\ o \in 0..(params[i].octaves - 1)
    /\ \E s \in {WithGrid(WithLayers(Local(i), params[i]), params[i], i, o)} :
          Returned(i, s, [op |-> "gradient_grid", inst |-> i, args |-> <<o>>,
                          raised |-> "", hit |-> gradient_grid[i][o] # {},
                          ret |-> s.gradient_grid[o]])
    /\ UNCHANGED <<image, container, params, stencil_cache, render_cache, resample_count>>

\* field.gradient
ReadGradient(i) ==
    /\ \E r \in {WithGradient(Local(i), params[i], i)} :
          Returned(i, r.s, [op |-> "gradient", inst |-> i, args |-> <<>>,
                            raised |-> r.raised, hit |-> gradient[i] # {},
                            ret |-> r.s.gradient])
    /\ UNCHANGED <<image, container, params, stencil_cache, render_cache, resample_count>>

\* field.scalar_field
ReadScalarField(i) ==
    /\ \E r \in {WithScalarField(Local(i), params[i], i)} :
          Returned(i, r.s, [op |-> "scalar_field", inst |-> i, args |-> <<>>,
                            raised |-> r.raised, hit |-> scalar_field[i] # {},
                            ret |-> r.s.scalar_field])
    /\ UNCHANGED <<image, container, params, stencil_cache, render_cache, resample_count>>

\* field.stencil(k)
CallStencil(i, k) ==
    /\ \E r \in {CachedStencil(stencil_cache, params[i], k)} :
          /\ stencil_cache' = r.cache
          /\ last' = [op |-> "stencil", inst |-> i, args |-> <<k>>, raised |-> r.raised,
                      hit |-> r.hit, ret |-> IF r.raised = "" THEN {r.value} ELSE {}]
    /\ UNCHANGED <<image, container, params, generator, octave_layers, gradient_grid, gradient,
                   scalar_field, render_cache, gen_log, resample_count>>

\* the positional and keyword arguments of a render_noise call of each form:
\* render_noise(size), render_noise(size, normalize) and
\* render_noise(size, normalize=normalize)
RenderArgs(form, size, normalize) ==
    IF form = "positional" THEN <<size, normalize>> ELSE <<size>>

RenderKwargs(form, size, normalize) ==
    IF form = "keyword" THEN <<<<"normalize", normalize>>>> ELSE <<>>

\* field.render_noise through its cache; normalize is the effective value
\* (the default True when the form passes none)
RenderNoise(i, form, size, normalize) ==
    /\ form = "default" => normalize
    /\ \E key \in {MakeKey(params[i], RenderArgs(form, size, normalize),
                           RenderKwargs(form, size, normalize))},
          call \in {[op |-> "render_noise", inst |-> i, args |-> <<form, size, normalize>>,
                     raised |-> "", hit |-> FALSE, ret |-> {}]} :
          \E found \in {Lookup(render_cache, key)} :
             IF found # {}
             THEN /\ last' = [call EXCEPT !.hit = TRUE,
                                          !.ret = {(CHOOSE e \in found : TRUE).value}]
                  /\ UNCHANGED <<generator, octave_layers, gradient_grid, gradient,
                                 scalar_field, gen_log, stencil_cache, render_cache,
                                 resample_count>>
             ELSE \E g \in {GradientForRender(Local(i), params[i], i)} :
                IF g.raised # ""
                THEN /\ Returned(i, g.s, [call EXCEPT !.raised = g.raised])
                     /\ UNCHANGED <<stencil_cache, render_cache, resample_count>>
                ELSE \E body \in {RenderBody(CHOOSE a \in g.s.gradient : TRUE, params[i],
                                             stencil_cache, size, normalize)} :
                   /\ Returned(i, g.s, [call EXCEPT !.raised = body.raised,
                                                    !.ret = body.value])
                   /\ stencil_cache' = body.cache
                   /\ render_cache' =
                        IF body.raised = ""
                        THEN render_cache \cup
                               {[key |-> key, value |-> CHOOSE v \in body.value : TRUE]}
                        ELSE render_cache
                   /\ resample_count' =
                        IF body.resampled
                        THEN [resample_count EXCEPT ![i][<<size, normalize>>] = @ + 1]
                        ELSE resample_count
    /\ UNCHANGED <<image, container, params>>

\* one call on an instance of I: an octave's gradient_grid
GridStep(I) == \E i \in I : \E o \in 0..(MaxOctaves - 1) : ReadGradientGrid(i, o)

\* one call on an instance of I: gradient or scalar_field
FieldStep(I) == \E i \in I : ReadGradient(i) \/ ReadScalarField(i)

\* one call on an instance of I: stencil
StencilStep(I) == \E i \in I : \E k \in Sizes : CallStencil(i, k)

\* one call on an instance of I: render_noise in a form of F
RenderStep(I, F) ==
    \E i \in I : \E form \in F, size \in Sizes, normalize \in BOOLEAN :
        RenderNoise(i, form, size, normalize)

\* Spec: one field, every property and every call form
CacheParams ==
    {p \in Params : p.shape = <<2, 2>> /\ p.seed = 0 /\ p.octaves = 2 /\ p.density = 1
                    /\ p.variance_func = "constant" /\ p.magnitude_func = "linear"}

Init == \E p \in CacheParams : Constructed(p)

Next ==
    \/ GridStep({"A"})
    \/ FieldStep({"A"})
    \/ StencilStep({"A"})
    \/ RenderStep({"A"}, Forms)

Spec == Init /\ [][Next]_vars

\* SpecTwin: two fields constructed from the same arguments and read in any
\* interleaving, render_noise in its default form
InitTwin == \E p \in CacheParams : Constructed(p)

NextTwin ==
    \/ GridStep(Insts)
    \/ FieldStep(Insts)
    \/ RenderStep(Insts, {"default"})

SpecTwin == InitTwin /\ [][NextTwin]_vars

\* SpecPure: one field for every shape, seed, octave count and density,
\* render_noise called positionally
PureParams == {p \in Params : p.variance_func = "constant" /\ p.magnitude_func # "constant"}

InitPure == \E p \in PureParams : Constructed(p)

NextPure ==
    \/ GridStep({"A"})
    \/ FieldStep({"A"})
    \/ RenderStep({"A"}, {"positional"})

SpecPure == InitPure /\ [][NextPure]_vars

\* field_i == field_j and hash(field_i)
CompareFields(i, j) ==
    /\ last' = [op |-> "__eq__", inst |-> i, args |-> <<j>>, raised |-> "",
                hit |-> FALSE, ret |-> {FieldEq(params[i], params[j])}]
    /\ UNCHANGED <<image, container, params, generator, octave_layers, gradient_grid, gradient,
                   scalar_field, stencil_cache, render_cache, gen_log, resample_count>>

HashField(i) ==
    /\ last' = [op |-> "__hash__", inst |-> i, args |-> <<>>, raised |-> "",
                hit |-> FALSE, ret |-> {FieldHash(params[i])}]
    /\ UNCHANGED <<image, container, params, generator, octave_layers, gradient_grid, gradient,
                   scalar_field, stencil_cache, render_cache, gen_log, resample_count>>

\* SpecEq: two fields constructed from any two argument tuples, compared and
\* hashed
EqParams == {p \in Params : p.shape # <<2>> /\ p.seed = 0}

InitEq == \E p, q \in EqParams : Constructed2(p, q)

NextEq ==
    \/ \E i, j \in Insts : CompareFields(i, j)
    \/ \E i \in Insts : HashField(i)

SpecEq == InitEq /\ [][NextEq]_vars

\* the ndarray of the points of seq, one row per point
PointArray(seq) ==
    [shape |-> <<Len(seq)>>,
     data |-> [idx \in Ndindex(<<Len(seq)>>) |-> seq[idx[1] + 1]]]

\* coordinates off the nodes: a value below 0, the middle of the axis and a
\* value above 1
OffNodeCoords == {Q(-1, 2), Q(1, 2), Q(3, 2)}

\* the coordinates a query takes along an axis of num nodes: the nodes and
\* the coordinates off them
QueryCoords(num) == {Linspace(num, j) : j \in 0..(num - 1)} \cup OffNodeCoords

QueryPoints(s) ==
    {x \in [DOMAIN s -> UNION {QueryCoords(s[a]) : a \in DOMAIN s}] :
        \A a \in DOMAIN s : x[a] \in QueryCoords(s[a])}

\* the arrays of points a caller hands to interpolated_gradient: one point,
\* the first node followed by a point off the nodes, or the layer's own
\* points
Queries(layer) ==
    {PointArray(<<x>>) : x \in QueryPoints(shape(layer))}
    \cup {PointArray(<<[a \in DOMAIN shape(layer) |-> Zero], x>>) :
             x \in [DOMAIN shape(layer) -> OffNodeCoords]}
    \cup {points(layer)}

\* field.octave_layers[o].interpolated_gradient(pts): the interpolator is
\* built from self.gradient_grid, read (and generated) before the query
CallInterpolatedGradient(i, o, pts) ==
    /\ \E s \in {WithGrid(WithLayers(Local(i), params[i]), params[i], i, o)} :
          \E r \in {interpolated_gradient(Layers(s)[o + 1], Grid(s, o), pts)} :
             Returned(i, s, [op |-> "interpolated_gradient", inst |-> i,
                             args |-> <<o, pts>>, raised |-> r.raised,
                             hit |-> FALSE, ret |-> r.value])
    /\ UNCHANGED <<image, container, params, stencil_cache, render_cache, resample_count>>

\* one call on an instance of I: an octave's interpolated_gradient
QueryStep(I) ==
    \E i \in I : \E o \in 0..(params[i].octaves - 1) :
        \E pts \in Queries(BuildLayers(params[i])[o + 1]) :
            CallInterpolatedGradient(i, o, pts)

\* SpecQuery: one field for every shape, octave count and density, its
\* octaves queried at points inside and outside the unit cube
QueryParams ==
    {p \in Params : p.seed = 0 /\ p.variance_func = "constant"
                    /\ p.magnitude_func = "linear"}

InitQuery == \E p \in QueryParams : Constructed(p)

NextQuery ==
    \/ GridStep({"A"})
    \/ QueryStep({"A"})

SpecQuery == InitQuery /\ [][NextQuery]_vars

\* SpecStencil: two fields of one or two dimensions, stencil called with
\* every resample size up to MaxK
StencilSizes == 1..MaxK

StencilParams ==
    {p \in Params : p.seed = 0 /\ p.octaves = 1 /\ p.density = 1
                    /\ p.variance_func = "constant" /\ p.magnitude_func # "zero"}

InitStencil == \E p, q \in StencilParams : Constructed2(p, q)

NextStencil == \E i \in Insts : \E k \in StencilSizes : CallStencil(i, k)

SpecStencil == InitStencil /\ [][NextStencil]_vars

\* integrate_kernel(ex_grad[window at d], value) on the field's computed
\* gradient, the call kernel_method makes for the window at d
CallIntegrateKernel(i, d, value) ==
    /\ gradient[i] # {}
    /\ \E G \in gradient[i] :
          /\ d \in Ndindex(G.shape)
          /\ \E win \in {Window(G, WShape(G.shape, 3, d), d)} :
                \E r \in {integrate_kernel(win, value)} :
                   last' = [op |-> "integrate_kernel", inst |-> i,
                            args |-> <<win, value>>, raised |-> r.raised,
                            hit |-> FALSE, ret |-> r.value]
    /\ UNCHANGED <<image, container, params, generator, octave_layers, gradient_grid, gradient,
                   scalar_field, stencil_cache, render_cache, gen_log, resample_count>>

\* kernel_method(field.gradient, wsize=3)
CallKernelMethod(i) ==
    /\ gradient[i] # {}
    /\ \E G \in gradient[i] :
          \E r \in {kernel_method(G, 3)} :
             last' = [op |-> "kernel_method", inst |-> i, args |-> <<G, 3>>,
                      raised |-> r.raised, hit |-> FALSE, ret |-> r.value]
    /\ UNCHANGED <<image, container, params, generator, octave_layers, gradient_grid, gradient,
                   scalar_field, stencil_cache, render_cache, gen_log, resample_count>>

\* a loop that seeds each kernel from the running buffer
SeedOf_FromBuffer(ex_grid, d) == ex_grid[d]

\* grid[index], the seed value kernel_method hands to integrate_kernel for
\* the window at d: grid is the np.zeros array, which the loop over the
\* windows never writes (the loop writes ex_grid, a separate array)
SeedOf(ex_grid, d) == Zero

\* ex_grid[window at d] += kernel / wsize ** n
AddKernel(gs, wsize, ex_grid, d, kernel) ==
    [e \in DOMAIN ex_grid |->
        IF \A a \in DOMAIN gs : d[a] <= e[a] /\ e[a] < d[a] + WShape(gs, wsize, d)[a]
        THEN RAdd(ex_grid[e],
                  RDiv(kernel.data[[a \in DOMAIN gs |-> e[a] - d[a]]],
                       QInt(Pow(wsize, Len(gs)))))
        ELSE ex_grid[e]]

\* the loop of kernel_method over the windows, visited in the given order
\* from its k-th element on, followed by the fold; ex_grid is the buffer so
\* far.  np.ndindex visits them in row-major order.
RECURSIVE WindowLoop(_, _, _, _, _)

\* r is the outcome of integrate_kernel on the window at order[k]
WindowPass(grad, wsize, order, k, ex_grid, r) ==
    IF r.raised # "" THEN [raised |-> r.raised, value |-> {}]
    ELSE IF \E a \in DOMAIN grad.shape :
               WShape(grad.shape, wsize, order[k])[a]
                   # WShape(grad.shape, wsize, order[k])[1]
    THEN [raised |-> "ValueError", value |-> {}]
    ELSE WindowLoop(grad, wsize, order, k + 1,
                    AddKernel(grad.shape, wsize, ex_grid, order[k],
                              CHOOSE v \in r.value : TRUE))

WindowLoop(grad, wsize, order, k, ex_grid) ==
    IF k > Len(order)
    THEN [raised |-> "",
          value |-> {[shape |-> grad.shape, data |-> Fold(grad.shape, wsize, ex_grid)]}]
    ELSE WindowPass(grad, wsize, order, k, ex_grid,
                    integrate_kernel(Window(grad, WShape(grad.shape, wsize, order[k]),
                                            order[k]),
                                     SeedOf(ex_grid, order[k])))

\* the orders in which the windows are visited: row-major (the source's),
\* row-major backwards, and column-major
Orders(gs) ==
    {RowMajor(gs),
     [k \in 1..Prod(gs) |-> RowMajor(gs)[Prod(gs) + 1 - k]],
     [k \in 1..Prod(gs) |->
        CHOOSE idx \in Ndindex(gs) :
            RowMajorRank([a \in DOMAIN gs |-> idx[Len(gs) + 1 - a]],
                         [a \in DOMAIN gs |-> gs[Len(gs) + 1 - a]]) = k - 1]}

\* kernel_method(field.gradient, wsize=3) with its loop visiting the windows
\* in the given order
CallKernelMethodInOrder(i, order) ==
    /\ gradient[i] # {}
    /\ \E G \in gradient[i] :
          /\ order \in Orders(G.shape)
          /\ \E r \in {WindowLoop(G, 3, order, 1,
                                  [e \in Ndindex([a \in DOMAIN G.shape |-> 2 * G.shape[a]])
                                      |-> Zero])} :
                last' = [op |-> "kernel_method_in_order", inst |-> i,
                         args |-> <<G, 3, order>>, raised |-> r.raised,
                         hit |-> FALSE, ret |-> r.value]
    /\ UNCHANGED <<image, container, params, generator, octave_layers, gradient_grid, gradient,
                   scalar_field, stencil_cache, render_cache, gen_log, resample_count>>

\* the seed values handed to integrate_kernel
SeedValues == {Zero, One}

\* one call of a module-level kernel function on the gradient of an instance
\* of I
KernelStep(I) ==
    \E i \in I :
        \/ \E d \in Ndindex([a \in DOMAIN params[i].shape |-> MaxExtent]) :
              \E value \in SeedValues : CallIntegrateKernel(i, d, value)
        \/ CallKernelMethod(i)
        \/ \E order \in Orders([a \in DOMAIN params[i].shape |->
                                  FinestExtent(params[i], a)]) :
              CallKernelMethodInOrder(i, order)

\* SpecKernel: one field for every shape, octave count and density, the
\* kernel functions applied to its gradient
KernelParams ==
    {p \in Params : p.seed = 0 /\ p.variance_func = "constant"
                    /\ p.magnitude_func = "linear"}

InitKernel == \E p \in KernelParams : Constructed(p)

NextKernel ==
    \/ FieldStep({"A"})
    \/ KernelStep({"A"})

SpecKernel == InitKernel /\ [][NextKernel]_vars

----------------------------------------------------------------------------
(* Canvas.perlin_noise_canvas *)

\* the fields of the dataclass PerlinNoiseScreen, in declaration order; none
\* has a default
Fields == <<"shape", "seed", "octaves", "density", "variance_func", "magnitude_func">>

\* the generated __init__ called with positional arguments: they bind to the
\* fields in order, and a field left without a value is a TypeError
DataclassInit(args) ==
    IF Len(args) # Len(Fields)
    THEN [raised |-> "TypeError", screen |-> {}]
    ELSE [raised |-> "",
          screen |-> {[f \in {Fields[n] : n \in DOMAIN Fields} |->
                          args[CHOOSE n \in DOMAIN Fields : Fields[n] = f]]}]

Magnitudes == {Zero, One}

\* Canvas.perlin_noise_canvas: the screen is constructed first, from five
\* positional arguments; what follows the constructor (the render, the image,
\* the canvas and the attachment canvas.misc.screen = screen) runs only when
\* the constructor returns
perlin_noise_canvas(shp, size, render_size, seed, octaves, magnitude, density) ==
    DataclassInit(<<shp, seed, octaves, magnitude, density>>)

CallPerlinNoiseCanvas(shp, size, render_size, seed, octaves, magnitude, density) ==
    /\ \E r \in {perlin_noise_canvas(shp, size, render_size, seed, octaves,
                                     magnitude, density)} :
          last' = [op |-> "perlin_noise_canvas", inst |-> "",
                   args |-> <<shp, size, render_size, seed, octaves, magnitude, density>>,
                   raised |-> r.raised, hit |-> FALSE, ret |-> r.screen]
    /\ UNCHANGED <<image, container, params, generator, octave_layers, gradient_grid, gradient,
                   scalar_field, stencil_cache, render_cache, gen_log, resample_count>>

\* SpecCanvas: canvases made from every combination of arguments
InitCanvas == \E p \in CacheParams : Constructed(p)

NextCanvas ==
    \E shp \in Shapes, size \in Sizes, render_size \in Sizes, seed \in Seeds,
       octaves \in 1..MaxOctaves, magnitude \in Magnitudes, density \in 1..MaxDensity :
        CallPerlinNoiseCanvas(shp, size, render_size, seed, octaves, magnitude, density)

SpecCanvas == InitCanvas /\ [][NextCanvas]_vars

----------------------------------------------------------------------------
(* Image: data layers and the pixel cache *)

MaxLayers == 2
MaxOpen == 2

\* trees.ui.image.Image ("ui") and trees.image.image.Image ("dataclass")
ImageClasses == {"ui", "dataclass"}
ImageSizes == {<<1, 1>>, <<1, 2>>}

\* a data array is taken with one value in all its cells and is given by
\* that value; all layers of an image have one shape (for the dataclass
\* Image, the image's size)
LayerData == {Zero, Q(1, 8)}
Alphas == {Zero, One}

\* the forms of the layers argument: (data, render) pairs and (data, render,
\* alpha) triples for the ui Image, arrays for the dataclass Image, whose
\* render function gives the alpha, here 1.0
LayerForms(cls) == IF cls = "ui" THEN {"pairs", "triples"} ELSE {"arrays"}

InitLayers(form, layers) ==
    [n \in DOMAIN layers |->
        [data |-> layers[n].data,
         alpha |-> IF form = "pairs" THEN Q(1, Len(layers))
                   ELSE IF form = "arrays" THEN One
                   ELSE layers[n].alpha]]

\* np.dot(alphas, pixel_column) at one position: the sum over the layers of
\* alpha * render(data), for a render function (x, x, x)
RECURSIVE FloatPixel(_)
FloatPixel(layers) ==
    IF layers = <<>> THEN Zero
    ELSE RAdd(RMul(layers[1].alpha, layers[1].data), FloatPixel(Tail(layers)))

\* astype(int) of a float that is not negative and in the range of the type
AsInt(x) == x[1] \div x[2]

\* _render_layers, and for the ui Image _scale_array: nearest-neighbour
\* resampling of an array with one value in all cells gives the array of the
\* image's size with that value
RenderLayers(size, layers) ==
    [pos \in Ndindex(size) |-> AsInt(RMul(QInt(255), FloatPixel(layers)))]

\* _invalidate reading the cache back as None
Invalidate_KeepCache(img) == img

\* _invalidate (ui) and self._cached = None (dataclass)
Invalidate(img) == [img EXCEPT !.cached = {}]

\* render(): the ui Image renders only when nothing is cached, the dataclass
\* Image always; the rendered array becomes the cache
DoRender(img) ==
    IF img.cls = "ui" /\ img.cached # {} THEN img
    ELSE [img EXCEPT !.cached = {RenderLayers(img.size, img.data_layers)},
                     !.touched = FALSE]

ImageCall(op, args, raised, hit, ret) ==
    [op |-> op, inst |-> "", args |-> args, raised |-> raised, hit |-> hit, ret |-> ret]

\* the image and the call record after a call on the image
ImageReturned(img, call) ==
    /\ image' = img
    /\ last' = call
    /\ UNCHANGED <<container, params, generator, octave_layers, gradient_grid, gradient,
                   scalar_field, stencil_cache, render_cache, gen_log, resample_count>>

\* Image(size, layers)
NewImage(cls, size, form, layers) ==
    /\ image = NoImage
    /\ form \in LayerForms(cls)
    /\ IF cls = "ui" /\ layers = <<>>
       THEN ImageReturned(image, ImageCall("Image", <<cls, size, form, layers>>,
                                           "Exception", FALSE, {}))
       ELSE ImageReturned([cls |-> cls, size |-> size,
                           data_layers |-> InitLayers(form, layers), cached |-> {},
                           setters |-> {}, open |-> 0, touched |-> FALSE],
                          ImageCall("Image", <<cls, size, form, layers>>, "", FALSE, {}))

\* image.pixels
ReadPixels ==
    /\ image # NoImage
    /\ \E img \in {IF image.cached = {} THEN DoRender(image) ELSE image} :
          ImageReturned(img, ImageCall("pixels", <<>>, "", image.cached # {}, img.cached))

\* image.render()
CallRender ==
    /\ image # NoImage
    /\ \E img \in {DoRender(image)} :
          ImageReturned(img, ImageCall("render", <<>>, "",
                                       image.cls = "ui" /\ image.cached # {}, img.cached))

\* entering "with image.edit_layers(*indexes)": one setter per index; an index
\* past the last layer raises before the try block is entered
EnterEdit(indexes) ==
    /\ image # NoImage
    /\ image.open < MaxOpen
    /\ IF \E i \in indexes : i >= Len(image.data_layers)
       THEN ImageReturned(image, ImageCall("edit_layers", <<indexes>>, "IndexError",
                                           FALSE, {}))
       ELSE ImageReturned([image EXCEPT !.setters = @ \cup indexes, !.open = @ + 1],
                          ImageCall("edit_layers", <<indexes>>, "", FALSE, {}))

\* a setter obtained from edit_layers called with a new array
CallSetter(i, data) ==
    /\ i \in image.setters
    /\ ImageReturned([Invalidate([image EXCEPT !.data_layers[i + 1].data = data])
                         EXCEPT !.touched = TRUE],
                     ImageCall("set", <<i, data>>, "", FALSE, {}))

\* leaving the with block of edit_layers (the finally clause)
ExitEdit ==
    /\ image.open > 0
    /\ ImageReturned([Invalidate(image) EXCEPT !.open = @ - 1, !.touched = TRUE],
                     ImageCall("exit", <<>>, "", FALSE, {}))

\* image.alphas = alphas on the ui Image; a tuple shorter than the layers
\* raises before anything is assigned
SetAlphas(alphas) ==
    /\ image.cls = "ui"
    /\ IF Len(alphas) < Len(image.data_layers)
       THEN ImageReturned(image, ImageCall("alphas", <<alphas>>, "IndexError", FALSE, {}))
       ELSE ImageReturned(
               [Invalidate([image EXCEPT !.data_layers =
                               [n \in DOMAIN @ |-> [@[n] EXCEPT !.alpha = alphas[n]]]])
                   EXCEPT !.touched = TRUE],
               ImageCall("alphas", <<alphas>>, "", FALSE, {}))

\* sequences of length lo..hi over S
SeqsOf(S, lo, hi) == UNION {[1..n -> S] : n \in lo..hi}

\* SpecImage: one image of either class, read and edited in any order
InitImage == \E p \in CacheParams : Constructed(p)

NextImage ==
    \/ \E cls \in ImageClasses, size \in ImageSizes, form \in {"pairs", "triples", "arrays"},
          layers \in SeqsOf([data : LayerData, alpha : Alphas], 0, MaxLayers) :
          NewImage(cls, size, form, layers)
    \/ ReadPixels
    \/ CallRender
    \/ \E indexes \in (SUBSET (0..(MaxLayers - 1))) \ {{}} : EnterEdit(indexes)
    \/ \E i \in 0..(MaxLayers - 1), data \in LayerData : CallSetter(i, data)
    \/ ExitEdit
    \/ \E alphas \in SeqsOf(Alphas, 1, MaxLayers) : SetAlphas(alphas)

SpecImage == InitImage /\ [][NextImage]_vars

----------------------------------------------------------------------------
(* SelectionContainer *)

MaxChildren == 3

\* a child is a plain drawable or a selectable one; children are numbered
\* from 0 as child.index numbers them
ChildKinds == {"drawable", "selectable"}

\* ISelectable.on_select and on_deselect of a concrete selectable child: it
\* records in its attribute selected whether it is selected
ChildOnSelect(child) == [child EXCEPT !.selected = TRUE]
ChildOnDeselect(child) == [child EXCEPT !.selected = FALSE]

\* on_clearselect: the child that current_selected refers to, if any, is
\* deselected; current_selected is left as it is
on_clearselect(c) ==
    IF c.current_selected = {} THEN c
    ELSE [c EXCEPT !.children[(CHOOSE n \in c.current_selected : TRUE) + 1] =
                       ChildOnDeselect(@)]

\* on_select(index): on_clearselect(), then on_select() of the managed child
\* with that index; an index that is not managed is a KeyError
on_select(c, index) ==
    IF index \notin c.managed
    THEN [raised |-> "KeyError", container |-> on_clearselect(c)]
    ELSE [raised |-> "",
          container |-> [on_clearselect(c) EXCEPT !.children[index + 1] =
                                                      ChildOnSelect(@)]]

\* the container and the call record after a call on the container
ContainerReturned(c, op, args, raised) ==
    /\ container' = c
    /\ last' = [op |-> op, inst |-> "", args |-> args, raised |-> raised,
                hit |-> FALSE, ret |-> {}]
    /\ UNCHANGED <<image, params, generator, octave_layers, gradient_grid, gradient,
                   scalar_field, stencil_cache, render_cache, gen_log, resample_count>>

\* add_child(child): the child gets the next index and, if it is selectable,
\* is entered in managed under that index
AddChild(kind) ==
    /\ Len(container.children) < MaxChildren
    /\ ContainerReturned(
          [container EXCEPT
              !.children = Append(@, [kind |-> kind, selected |-> FALSE]),
              !.managed = IF kind = "selectable"
                          THEN @ \cup {Len(container.children)} ELSE @],
          "add_child", <<kind>>, "")

CallOnSelect(index) ==
    \E r \in {on_select(container, index)} :
        ContainerReturned(r.container, "on_select", <<index>>, r.raised)

CallOnClearselect ==
    \E c \in {on_clearselect(container)} :
        ContainerReturned(c, "on_clearselect", <<>>, "")

\* SpecSelect: children added to a container and selected in any order
InitSelect == \E p \in CacheParams : Constructed(p)

NextSelect ==
    \/ \E kind \in ChildKinds : AddChild(kind)
    \/ \E index \in 0..(MaxChildren - 1) : CallOnSelect(index)
    \/ CallOnClearselect

SpecSelect == InitSelect /\ [][NextSelect]_vars

----------------------------------------------------------------------------
(* Claims *)

\* the value of a computed optional
The(opt) == CHOOSE v \in opt : TRUE

\* C1: two fields constructed from the same arguments hold identical
\* gradient and scalar_field arrays once both have computed them, whatever
\* the order in which their properties and their octave layers' gradient_grid
\* were first read (render_noise answers both from one shared cache entry).
C1_Determinism ==
    \A i, j \in Insts :
        params[i] = params[j] =>
            /\ (gradient[i] # {} /\ gradient[j] # {}) => gradient[i] = gradient[j]
            /\ (scalar_field[i] # {} /\ scalar_field[j] # {})
                  => scalar_field[i] = scalar_field[j]

\* idx comes before idy in row-major (lexicographic) order
LexLess(idx, idy) ==
    \E a \in DOMAIN idx :
        /\ idx[a] < idy[a]
        /\ \A b \in 1..(a - 1) : idx[b] = idy[b]

\* the positions of gen_log[i] that are calls for octave o
CallsOf(i, o) == {k \in DOMAIN gen_log[i] : gen_log[i][k].octave = o}

C2_Inv ==
    \A i \in Insts : \A o \in DOMAIN gradient_grid[i] :
        LET at == CallsOf(i, o)
            nodes == Ndindex([d \in DOMAIN params[i].shape |->
                                params[i].shape[d] * Pow(params[i].density, o)])
        IN /\ gradient_grid[i][o] = {} => at = {}
           /\ gradient_grid[i][o] # {} =>
                \* one call per node
                /\ {gen_log[i][k].idx : k \in at} = nodes
                /\ Cardinality(at) = Cardinality(nodes)
                \* in row-major order
                /\ \A k, l \in at : k < l => LexLess(gen_log[i][k].idx, gen_log[i][l].idx)
                \* all during one read: no other octave's call in between
                /\ \A k, l \in at : \A m \in k..l : m \in at
           \* the generator has advanced by one vector per logged call only
           /\ generator[i] # {} =>
                generator[i] = {Len(gen_log[i]) * Len(params[i].shape)}

C2_Step ==
    \A i \in Insts : \A o \in DOMAIN gradient_grid[i] :
        gradient_grid[i][o] # {} =>
            /\ gradient_grid'[i][o] = gradient_grid[i][o]
            /\ (last'.op = "gradient_grid" /\ last'.inst = i /\ last'.args = <<o>>) =>
                  /\ last'.ret = gradient_grid[i][o]
                  /\ generator' = generator
                  /\ gen_log' = gen_log

\* C2: for every octave, gen_vector is invoked exactly once per grid node, in
\* row-major node order, all during the first read of gradient_grid; a later
\* read returns the memoized grid and consumes no generator state.
C2_GenVectorOncePerNode == []C2_Inv /\ [][C2_Step]_vars

\* a read of a generated 4 x 4 octave grid answered from the memoized value
C2_Witness ==
    /\ last.op = "gradient_grid" /\ last.hit /\ last.args = <<1>>
    /\ params["A"].density = 2
    /\ params["A"].shape = <<2, 2>>
    /\ Cardinality(CallsOf("A", 1)) = 16

\* the cache entries left by earlier render_noise calls of instance i with
\* exactly these arguments in exactly this form
EarlierCalls(i, form, size, normalize) ==
    {e \in render_cache :
        /\ e.key.self = params[i]
        /\ e.key.args = (IF form = "positional" THEN <<size, normalize>> ELSE <<size>>)
        /\ e.key.kwargs = (IF form = "keyword" THEN <<<<"normalize", normalize>>>>
                           ELSE <<>>)}

C3_Step ==
    (/\ last'.op = "render_noise"
     /\ EarlierCalls(last'.inst, last'.args[1], last'.args[2], last'.args[3]) # {})
    => /\ last'.raised = ""
       /\ last'.ret = {e.value : e \in EarlierCalls(last'.inst, last'.args[1],
                                                     last'.args[2], last'.args[3])}
       /\ gen_log' = gen_log
       /\ generator' = generator
       /\ resample_count' = resample_count
       /\ render_cache' = render_cache

\* C3: a render_noise call repeated on the same field with the same arguments
\* returns the array cached by the first call, invokes gen_vector no further
\* and does not run the render again.
C3_RenderMemoized == [][C3_Step]_vars

\* render_noise(size) called again after render_noise(size) had returned
C3_Witness ==
    /\ last.op = "render_noise" /\ last.hit /\ last.args = <<"default", MaxSize, TRUE>>
    /\ last.ret # {}
    /\ resample_count[last.inst][<<MaxSize, TRUE>>] = 1

\* C4: on one field the resampling runs at most once for each pair of size
\* and effective normalize value, whatever the form of the calls.
C4_OneResamplePerPair ==
    \A i \in Insts : \A c \in Sizes \X BOOLEAN : resample_count[i][c] <= 1

\* C5: the shared generator is consumed in octave-index order: every draw for
\* octave i comes before any draw for an octave j > i.
C5_OctaveOrder ==
    \A i \in Insts : \A k, l \in DOMAIN gen_log[i] :
        k < l => gen_log[i][k].octave <= gen_log[i][l].octave

\* C6: render_noise(size, normalize) returns, for every size >= 1 and both
\* values of normalize, an array of extent (gradient.shape[d] - 1) * size
\* along each axis d.
C6_RenderShapeLaw ==
    last.op = "render_noise" =>
        /\ last.raised = ""
        /\ last.ret # {}
        /\ gradient[last.inst] # {} =>
             The(last.ret).shape =
                [d \in DOMAIN The(gradient[last.inst]).shape |->
                    (The(gradient[last.inst]).shape[d] - 1) * last.args[2]]

\* C7: the octave layer of index o has shape[d] = top_shape[d] * density^o on
\* every axis, its grid has that shape, and the composite gradient has extent
\* shape[d] * density^(octaves-1).
C7_OctaveShapes ==
    \A i \in Insts :
        LET p == params[i]
            Expected(o) == [d \in DOMAIN p.shape |-> p.shape[d] * Pow(p.density, o)]
        IN /\ \A l \in octave_layers[i] : \A k \in DOMAIN l :
                /\ l[k].octave = k - 1
                /\ l[k].top_shape = p.shape
                /\ shape(l[k]) = Expected(k - 1)
           /\ \A o \in DOMAIN gradient_grid[i] : \A g \in gradient_grid[i][o] :
                g.shape = Expected(o)
           /\ \A g \in gradient[i] : g.shape = Expected(p.octaves - 1)

\* a composite gradient over two octaves of density 2
C7_Witness ==
    /\ gradient["A"] # {}
    /\ params["A"].octaves = 2 /\ params["A"].density = 2
    /\ The(gradient["A"]).shape = <<4, 4>>

\* the two fields agree on shape, seed, octaves, density and magnitude
Agree5(p, q) ==
    /\ p.shape = q.shape /\ p.seed = q.seed /\ p.octaves = q.octaves
    /\ p.density = q.density /\ p.magnitude_func = q.magnitude_func

\* C8 as stated: two fields that agree on (shape, seed, octaves, density,
\* magnitude) compare equal and have equal hashes, and fields that compare
\* equal have equal hashes.
C8_EqualityByFiveFields ==
    last.op = "__eq__" =>
        LET p == params[last.inst]
            q == params[last.args[1]]
        IN /\ Agree5(p, q) => (last.ret = {TRUE} /\ FieldHash(p) = FieldHash(q))
           /\ last.ret = {TRUE} => FieldHash(p) = FieldHash(q)

\* C8 amended: two fields compare equal exactly when they agree on shape,
\* seed, octaves, density, magnitude and also on variance_func; fields that
\* agree on the first five have equal hashes whether or not they compare
\* equal, and fields that compare equal have equal hashes.
C8_EqualityBySixFields ==
    last.op = "__eq__" =>
        LET p == params[last.inst]
            q == params[last.args[1]]
        IN /\ last.ret = {Agree5(p, q) /\ p.variance_func = q.variance_func}
           /\ Agree5(p, q) => FieldHash(p) = FieldHash(q)
           /\ last.ret = {TRUE} => FieldHash(p) = FieldHash(q)

\* two fields that differ in variance_func only were compared
C8_Witness ==
    /\ last.op = "__eq__"
    /\ Agree5(params[last.inst], params[last.args[1]])
    /\ params[last.inst].variance_func # params[last.args[1]].variance_func
    /\ last.ret = {FALSE}

\* a non-empty array whose values are all equal
AllEqual(a) ==
    /\ DOMAIN a.data # {}
    /\ \A x, y \in DOMAIN a.data : a.data[x] = a.data[y]

AllNaN(a) == \A x \in DOMAIN a.data : a.data[x] = NaN

\* the raw values the last call normalised: the kernel estimate for
\* scalar_field, the unnormalised render for render_noise(size, True); empty
\* when the call got no values to normalise
RawOfLast ==
    IF gradient[last.inst] = {} THEN {}
    ELSE IF last.op = "scalar_field"
    THEN kernel_method(The(gradient[last.inst]), 3).value
    ELSE IF last.op = "render_noise" /\ last.args[3]
    THEN RenderBody(The(gradient[last.inst]), params[last.inst], stencil_cache,
                    last.args[2], FALSE).value
    ELSE {}

\* C9: when the values to normalise are all equal, scalar_field and
\* render_noise with normalize=True complete without raising and return NaN
\* in every cell.
C9_DegenerateNaN ==
    (last.op \in {"scalar_field", "render_noise"}) =>
        \A raw \in RawOfLast :
            AllEqual(raw) =>
                /\ last.raised = ""
                /\ last.ret # {}
                /\ The(last.ret).shape = raw.shape
                /\ AllNaN(The(last.ret))

\* a render of a non-empty constant raw image has returned NaN everywhere,
\* on a field whose scalar_field is NaN everywhere too
C9_Witness ==
    /\ last.op = "render_noise" /\ last.args[3] /\ last.raised = ""
    /\ \E raw \in RawOfLast : AllEqual(raw)
    /\ last.ret # {} /\ AllNaN(The(last.ret))
    /\ scalar_field[last.inst] # {} /\ AllNaN(The(scalar_field[last.inst]))
    /\ DOMAIN The(scalar_field[last.inst]).data # {}

\* the cached results of render_noise(size, True) and render_noise(size,
\* False) on one field, the raw values not all equal
RenderPairs ==
    {pr \in render_cache \X render_cache :
        /\ pr[1].key.self = pr[2].key.self
        /\ pr[1].key.kwargs = <<>> /\ pr[2].key.kwargs = <<>>
        /\ \E size \in Sizes : /\ pr[1].key.args = <<size, TRUE>>
                               /\ pr[2].key.args = <<size, FALSE>>
        /\ DOMAIN pr[2].value.data # {}
        /\ ~AllEqual(pr[2].value)}

\* C10: when the raw rendered values are not all equal, the normalised render
\* lies in [0, 1] with minimum exactly 0 and maximum exactly 1, and equals
\* (raw - min) / (max - min) of the unnormalised render cell by cell.
C10_NormalizedRange ==
    \A pr \in RenderPairs :
        LET norm == pr[1].value
            raw == pr[2].value
            cellsOf == DOMAIN raw.data
        IN /\ norm.shape = raw.shape
           /\ DOMAIN norm.data = cellsOf
           /\ \A x \in cellsOf : RLeq(Zero, norm.data[x]) /\ RLeq(norm.data[x], One)
           /\ \E x \in cellsOf : norm.data[x] = Zero
           /\ \E x \in cellsOf : norm.data[x] = One
           /\ \E lo, hi \in cellsOf :
                /\ \A x \in cellsOf : RLeq(raw.data[lo], raw.data[x])
                                      /\ RLeq(raw.data[x], raw.data[hi])
                /\ \A x \in cellsOf :
                     norm.data[x] = RDiv(RSub(raw.data[x], raw.data[lo]),
                                         RSub(raw.data[hi], raw.data[lo]))

\* both renders of a 6 x 6 image with at least three distinct raw values
C10_Witness ==
    \E pr \in RenderPairs :
        /\ pr[2].value.shape = <<6, 6>>
        /\ Cardinality({pr[2].value.data[x] : x \in DOMAIN pr[2].value.data}) >= 3
        /\ last.op = "render_noise"

\* the coordinates of node idx of the finest octave of the field p
FinestPoint(p, idx) == [a \in DOMAIN idx |-> Linspace(FinestExtent(p, a), idx[a])]

\* what octave o of field i adds to the gradient at the finest node idx: the
\* finest octave its stored vector, a coarser one its grid interpolated at
\* the node's coordinates
OctaveTerm(i, o, idx) ==
    IF o = params[i].octaves - 1 THEN The(gradient_grid[i][o]).data[idx]
    ELSE InterpolateAt(The(gradient_grid[i][o]), FinestPoint(params[i], idx))

\* the sum of the terms of the octaves 0..o
OctaveSum(i, o, idx) ==
    LET acc[k \in 0..o] ==
            IF k = 0 THEN OctaveTerm(i, 0, idx)
            ELSE VAdd(acc[k - 1], OctaveTerm(i, k, idx))
    IN acc[o]

\* C11: a computed gradient has the finest octave's shape with one vector of
\* dimensions components per node, and at every node it is the sum over all
\* octaves of the octave's contribution on the finest node grid: the stored
\* vector for the finest octave, the multilinear interpolation at the node's
\* coordinates for every coarser one.
C11_GradientComposition ==
    \A i \in Insts :
        gradient[i] # {} =>
            /\ \A o \in 0..(params[i].octaves - 1) : gradient_grid[i][o] # {}
            /\ The(gradient[i]).shape =
                  [a \in DOMAIN params[i].shape |-> FinestExtent(params[i], a)]
            /\ DOMAIN The(gradient[i]).data = Ndindex(The(gradient[i]).shape)
            /\ \A idx \in DOMAIN The(gradient[i]).data :
                  /\ Len(The(gradient[i]).data[idx]) = dimensions(params[i])
                  /\ The(gradient[i]).data[idx] =
                        OctaveSum(i, params[i].octaves - 1, idx)

\* a gradient of two octaves on a 4 x 4 finest grid, the coarse octave adding
\* a non-zero vector at a node that is no node of the coarse grid
C11_Witness ==
    /\ last.op = "gradient" /\ last.raised = "" /\ gradient["A"] # {}
    /\ params["A"].octaves = 2 /\ params["A"].density = 2
    /\ params["A"].shape = <<2, 2>>
    /\ \E a \in 1..2 : /\ IsFinite(OctaveTerm("A", 0, <<1, 1>>)[a])
                        /\ OctaveTerm("A", 0, <<1, 1>>)[a] # Zero

\* the point x has a coordinate below 0 or above 1
OutsideUnitCube(x) == \E a \in DOMAIN x : RLess(x[a], Zero) \/ RLess(One, x[a])

\* the points of the last interpolated_gradient query
QueryOfLast == last.args[2].data

\* C12: an interpolated_gradient call whose query holds a point with a
\* coordinate below 0 or above 1 raises the out-of-bounds error for the whole
\* call and returns no value, whatever the other points of the query are.
C12_BoundsEnforced ==
    (/\ last.op = "interpolated_gradient"
     /\ \E idx \in DOMAIN QueryOfLast : OutsideUnitCube(QueryOfLast[idx]))
    => (last.raised = "ValueError" /\ last.ret = {})

\* a query of two points on a 2 x 2 grid, the first a node and the second
\* below 0 on one axis and above 1 on the other, that raised
C12_Witness ==
    /\ last.op = "interpolated_gradient" /\ last.raised = "ValueError"
    /\ The(gradient_grid[last.inst][last.args[1]]).shape = <<2, 2>>
    /\ last.args[2].shape = <<2>>
    /\ QueryOfLast[<<0>>] = <<Zero, Zero>>
    /\ QueryOfLast[<<1>>] = <<Q(-1, 2), Q(3, 2)>>

\* the coordinates of node `node` of a grid of shape s
NodeCoord(s, node) == [a \in DOMAIN s |-> Linspace(s[a], node[a])]

\* the grid the last interpolated_gradient query was made on
GridOfLast == The(gradient_grid[last.inst][last.args[1]])

\* C15: interpolated_gradient queried at a node's own coordinates returns
\* that node's stored vector: a query made only of node coordinates does not
\* raise, and in every query that returns, each point that is a node of the
\* octave's grid gets that node's vector.
C15_InterpolationIdentity ==
    last.op = "interpolated_gradient" =>
        /\ (\A idx \in DOMAIN QueryOfLast :
               \E node \in Ndindex(GridOfLast.shape) :
                   QueryOfLast[idx] = NodeCoord(GridOfLast.shape, node))
           => last.raised = ""
        /\ last.raised = "" =>
              \A idx \in DOMAIN QueryOfLast : \A node \in Ndindex(GridOfLast.shape) :
                  QueryOfLast[idx] = NodeCoord(GridOfLast.shape, node)
                  => The(last.ret).data[idx] = GridOfLast.data[node]

\* the second octave's 4 x 4 grid, holding more than one vector, queried at
\* its own points and returned whole
C15_Witness ==
    /\ last.op = "interpolated_gradient" /\ last.raised = ""
    /\ last.args[1] = 1 /\ GridOfLast.shape = <<4, 4>>
    /\ last.args[2].shape = <<4, 4>>
    /\ \A node \in Ndindex(<<4, 4>>) :
          QueryOfLast[node] = NodeCoord(<<4, 4>>, node)
    /\ The(last.ret) = GridOfLast
    /\ Cardinality({GridOfLast.data[node] : node \in Ndindex(<<4, 4>>)}) >= 2

\* the patterns the last stencil call returned, and its resample size
StencilOfLast == The(last.ret)

\* the index idx mirrored on every axis of a cube of extent k
Mirrored(k, idx) == [a \in DOMAIN idx |-> k - 1 - idx[a]]

\* the patterns e and f belong to opposite corners
Opposite(e, f) == \A a \in DOMAIN e.pos : e.pos[a] + f.pos[a] = 1

\* C13: in the patterns a stencil call returns, the displacement at index idx
\* of a corner's pattern has the magnitude of the displacement at the mirrored
\* index (k-1-idx on every axis) of the opposite corner's pattern; magnitudes
\* are compared by their squares.
C13_StencilSymmetry ==
    (last.op = "stencil" /\ last.raised = "") =>
        \A c, d \in DOMAIN StencilOfLast :
            Opposite(StencilOfLast[c], StencilOfLast[d]) =>
                \A idx \in DOMAIN StencilOfLast[c].cube.data :
                    Dot(StencilOfLast[c].cube.data[idx],
                        StencilOfLast[c].cube.data[idx])
                    = Dot(StencilOfLast[d].cube.data[Mirrored(last.args[1], idx)],
                          StencilOfLast[d].cube.data[Mirrored(last.args[1], idx)])

\* the set {0,1}^n of corner keys
CornerKeys(n) == [1..n -> {0, 1}]

\* C14: stencil(k) returns, for every k >= 1, exactly 2^n patterns whose
\* corner keys are pairwise distinct and cover {0,1}^n, each pattern an array
\* of k^n displacement vectors of n components.
C14_StencilStructure ==
    last.op = "stencil" =>
        /\ last.raised = "" /\ last.ret # {}
        /\ Len(StencilOfLast) = Pow(2, dimensions(params[last.inst]))
        /\ {StencilOfLast[c].pos : c \in DOMAIN StencilOfLast}
              = CornerKeys(dimensions(params[last.inst]))
        /\ \A c \in DOMAIN StencilOfLast :
              /\ StencilOfLast[c].cube.shape =
                    [a \in 1..dimensions(params[last.inst]) |-> last.args[1]]
              /\ Cardinality(DOMAIN StencilOfLast[c].cube.data)
                    = Pow(last.args[1], dimensions(params[last.inst]))
              /\ \A idx \in DOMAIN StencilOfLast[c].cube.data :
                    Len(StencilOfLast[c].cube.data[idx])
                        = dimensions(params[last.inst])

\* C16 as claimed: render_noise resamples the scalar field, so scalar_field
\* has been computed on the field by the time a render_noise call returns.
C16_FieldBeforeRender ==
    (last.op = "render_noise" /\ last.raised = "") => scalar_field[last.inst] # {}

\* a render_noise call whose body ran and returned leaves the field's
\* gradient computed, returns the stencil resampling of that gradient, and
\* no render_noise call computes or changes scalar_field
C16_Step ==
    last'.op = "render_noise" =>
        /\ scalar_field' = scalar_field
        /\ (last'.raised = "" /\ ~last'.hit) =>
              /\ gradient'[last'.inst] # {}
              /\ last'.ret = RenderBody(The(gradient'[last'.inst]),
                                        params[last'.inst], stencil_cache,
                                        last'.args[2], last'.args[3]).value

\* C16 (amended): the pipeline of render_noise is gradient -> resampling: the
\* array a render_noise call computes is the stencil resampling of the
\* composite gradient, which has been computed by the time the call returns;
\* scalar_field is neither read nor computed by render_noise.
C16_RenderFromGradient == [][C16_Step]_vars

\* a render_noise call that ran its body and returned an image, the field's
\* gradient computed and its scalar_field not
C16_Witness ==
    /\ last.op = "render_noise" /\ last.raised = "" /\ ~last.hit
    /\ last.ret # {} /\ DOMAIN The(last.ret).data # {}
    /\ gradient[last.inst] # {}
    /\ scalar_field[last.inst] = {}

\* the window and the kernel of the last integrate_kernel call
WindowOfLast == last.args[1]

KernelOfLast == The(last.ret)

\* the cell `index` of the kernel equals the sum, over the axes i on which
\* its index is > 0, of the kernel's cell at from[i] plus the integral term
\* term[i]
Accumulated(K, index, from, term) ==
    K.data[index] =
        RSum([i \in DOMAIN index |->
                IF index[i] > 0 THEN RAdd(K.data[from[i]], term[i]) ELSE Zero])

\* C17 as claimed: every cell of the kernel with an index > 0 on some axis
\* holds, summed over those axes i, the value of the adjacent lower cell
\* along axis i (index[i] - 1) plus the integral term of component i.
C17_AdjacentLowerCell ==
    (last.op = "integrate_kernel" /\ last.raised = "") =>
        \A index \in DOMAIN KernelOfLast.data :
            (\E i \in DOMAIN index : index[i] > 0) =>
                Accumulated(KernelOfLast, index,
                            [i \in DOMAIN index |-> [index EXCEPT ![i] = @ - 1]],
                            [i \in DOMAIN index |->
                                IntegralTerm(WindowOfLast, index, i).value])

\* C17 (amended): every cell of the kernel with an index > 0 on some axis
\* holds, summed over those axes i, the value of the cell at index 0 along
\* axis i (the other coordinates kept) plus the integral term of component i.
C17_ReferenceCell ==
    (last.op = "integrate_kernel" /\ last.raised = "") =>
        \A index \in DOMAIN KernelOfLast.data :
            (\E i \in DOMAIN index : index[i] > 0) =>
                Accumulated(KernelOfLast, index,
                            [i \in DOMAIN index |-> [index EXCEPT ![i] = 0]],
                            [i \in DOMAIN index |->
                                IntegralTerm(WindowOfLast, index, i).value])

\* a 3 x 3 kernel whose cells at index 0 and index 1 of the last axis differ
\* in the row of a cell at index 2
C17_Witness ==
    /\ last.op = "integrate_kernel" /\ last.raised = ""
    /\ KernelOfLast.shape = <<3, 3>>
    /\ KernelOfLast.data[<<2, 0>>] # KernelOfLast.data[<<2, 1>>]
    /\ KernelOfLast.data[<<2, 2>>] # Zero

\* Simpson's rule over the component-i samples of the window that lie along
\* axis i from index 0 up to the cell's index, the other coordinates the
\* cell's own
AxisIntegral(win, index, i) ==
    simpson([k \in 1..index[i] |-> win.data[[index EXCEPT ![i] = k - 1]][i]])

\* C18: for every axis i on which a cell's index is > 0, the integral term
\* accumulated into the cell is the integral of the gradient component-i
\* samples lying along axis i between the window's reference index 0 and the
\* cell's index, the other coordinates fixed at the cell's.
C18_IntegralAlongAxis ==
    (last.op = "integrate_kernel" /\ last.raised = "") =>
        \A index \in DOMAIN KernelOfLast.data :
            (\E i \in DOMAIN index : index[i] > 0) =>
                Accumulated(KernelOfLast, index,
                            [i \in DOMAIN index |-> [index EXCEPT ![i] = 0]],
                            [i \in DOMAIN index |->
                                IF index[i] > 0
                                THEN AxisIntegral(WindowOfLast, index, i)
                                ELSE Zero])

\* ex_grid of kernel_method(grad, wsize) after the loop over the windows: the
\* normalised window contributions written to every doubled-buffer cell
WrittenBuffer(grad, wsize) ==
    ExGrid(grad.shape, wsize,
           [d \in Ndindex(grad.shape) |->
               integrate_kernel(Window(grad, WShape(grad.shape, wsize, d), d), Zero)],
           RowMajor(grad.shape))

\* the doubled-buffer cells congruent to the base cell q modulo the shape gs
\* along every axis
Congruent(gs, q) ==
    {e \in Ndindex([a \in DOMAIN gs |-> 2 * gs[a]]) :
        \A a \in DOMAIN gs : e[a] % gs[a] = q[a]}

\* the sum of the buffer over a set of cells
RECURSIVE SumOver(_, _)
SumOver(buffer, cells) ==
    IF cells = {} THEN Zero
    ELSE LET e == CHOOSE x \in cells : TRUE
         IN RAdd(buffer[e], SumOver(buffer, cells \ {e}))

\* C19: the value kernel_method returns for the base cell q is the sum of the
\* normalised window contributions written to every doubled-buffer cell
\* congruent to q modulo the grid shape along every axis, the cells that
\* overflow the base region on two or more axes included.
C19_PeriodicFold ==
    (last.op = "kernel_method" /\ last.raised = "") =>
        \A q \in DOMAIN The(last.ret).data :
            The(last.ret).data[q] =
                SumOver(WrittenBuffer(last.args[1], last.args[2]),
                        Congruent(last.args[1].shape, q))

\* the array render_noise(size, normalize=False) builds from the gradient G
\* when every block is written reversed along every axis
ReversedOnAllAxes(G, corners, size) ==
    [f \in Ndindex([a \in DOMAIN G.shape |-> (G.shape[a] - 1) * size]) |->
        Val(G, corners, [a \in DOMAIN f |-> f[a] \div size],
            [a \in DOMAIN f |-> size - 1 - (f[a] % size)])]

\* C20: for a field of any dimension n >= 1, render_noise writes the block
\* of every cell as the summed corner contributions reversed on all n axes:
\* an unnormalised render of a gradient with at least one cell, at a size
\* whose stencil exists, returns that array.
C20_ReversedOnEveryAxis ==
    (/\ last.op = "render_noise" /\ ~last.args[3]
     /\ gradient[last.inst] # {}
     /\ \A a \in DOMAIN The(gradient[last.inst]).shape :
           The(gradient[last.inst]).shape[a] >= 2
     /\ stencil(dimensions(params[last.inst]), last.args[2]).raised = "")
    => /\ last.raised = ""
       /\ last.ret # {}
       /\ The(last.ret).data =
             ReversedOnAllAxes(The(gradient[last.inst]),
                               stencil(dimensions(params[last.inst]),
                                       last.args[2]).value,
                               last.args[2])

\* the sign combination of the corner keyed pos
UnitOf(pos) == [a \in DOMAIN pos |-> IF pos[a] = 1 THEN -1 ELSE 1]

\* the index of the corner's own position in its pattern of extent k: the
\* position of zero displacement, index 0 on an axis of sign 1 and k-1 on a
\* flipped axis
OwnIndex(pos, k) == [a \in DOMAIN pos |-> IF pos[a] = 1 THEN k - 1 ELSE 0]

\* C21: in every pattern stencil(k) returns, the vector at the corner's own
\* position (zero displacement) is the one divided by (|v| + 0.05)^2, and
\* every other vector is the unscaled displacement from the corner.
C21_CornerNormalised ==
    (last.op = "stencil" /\ last.raised = "") =>
        \A c \in DOMAIN StencilOfLast :
            \A idx \in DOMAIN StencilOfLast[c].cube.data :
                StencilOfLast[c].cube.data[idx] =
                    IF idx = OwnIndex(StencilOfLast[c].pos, last.args[1])
                    THEN Shrink(Flipped(Len(idx), last.args[1],
                                        UnitOf(StencilOfLast[c].pos))[idx])
                    ELSE Flipped(Len(idx), last.args[1],
                                 UnitOf(StencilOfLast[c].pos))[idx]

\* the sum over the stencil corners of the dot product of the corner's vector
\* at sub-sample w with the gradient at node cell + corner position
CornerSum(G, corners, cell, w) ==
    RSum([c \in DOMAIN corners |->
            Dot(corners[c].cube.data[w],
                G.data[[a \in DOMAIN cell |-> cell[a] + corners[c].pos[a]]])])

\* the unnormalised image of the gradient G at resample size: the block of
\* the cell f \div size holds the corner sums, sub-sample w stored at the
\* reversed offset size - 1 - w
BlocksOf(G, corners, size) ==
    [f \in Ndindex([a \in DOMAIN G.shape |-> (G.shape[a] - 1) * size]) |->
        CornerSum(G, corners, [a \in DOMAIN f |-> f[a] \div size],
                  [a \in DOMAIN f |-> size - 1 - (f[a] % size)])]

\* C22: in every image render_noise returns, the size^n block at offsets
\* size*idx .. size*idx + size - 1 is, before reversal, the sum over the 2^n
\* stencil corners of the dot product of the corner's stencil vectors with
\* the gradient vector at node idx + corner position (rescaled as a whole when
\* normalize is set).
C22_BlockIsCornerSum ==
    (last.op = "render_noise" /\ last.raised = "" /\ gradient[last.inst] # {}) =>
        /\ last.ret # {}
        /\ (DOMAIN The(last.ret).data # {}) =>
              The(last.ret).data =
                  IF last.args[3]
                  THEN Rescale([shape |-> The(last.ret).shape,
                                data |-> BlocksOf(The(gradient[last.inst]),
                                              stencil(dimensions(params[last.inst]),
                                                      last.args[2]).value,
                                              last.args[2])]).data
                  ELSE BlocksOf(The(gradient[last.inst]),
                                stencil(dimensions(params[last.inst]),
                                        last.args[2]).value,
                                last.args[2])

\* an unnormalised 6 x 6 image (3 x 3 cells at size 2) of a gradient whose nodes
\* differ, holding more than one value
C22_Witness ==
    /\ last.op = "render_noise" /\ last.raised = "" /\ ~last.args[3]
    /\ last.args[2] = 2 /\ last.ret # {}
    /\ The(last.ret).shape = <<6, 6>>
    /\ Cardinality({The(last.ret).data[f] : f \in DOMAIN The(last.ret).data}) >= 3
    /\ Cardinality({The(gradient[last.inst]).data[x] :
                       x \in DOMAIN The(gradient[last.inst]).data}) >= 2

\* C23: kernel_method's result does not depend on the order in which the
\* windows are processed: visited row-major backwards or column-major, the
\* loop returns (or raises) what kernel_method returns for the same gradient.
C23_WindowOrderIrrelevant ==
    last.op = "kernel_method_in_order" =>
        /\ last.raised = kernel_method(last.args[1], last.args[2]).raised
        /\ last.ret = kernel_method(last.args[1], last.args[2]).value

\* a 4 x 4 field computed with its windows visited in an order that is not
\* the source's, the field holding more than one value
C23_Witness ==
    /\ last.op = "kernel_method_in_order" /\ last.raised = "" /\ last.ret # {}
    /\ The(last.ret).shape = <<4, 4>>
    /\ last.args[3] # RowMajor(<<4, 4>>)
    /\ last.args[3][1] = <<0, 0>>
    /\ Cardinality({The(last.ret).data[q] : q \in DOMAIN The(last.ret).data}) >= 2

\* nothing is computed on instance i
Fresh(i) ==
    /\ generator[i] = {} /\ octave_layers[i] = {}
    /\ \A o \in DOMAIN gradient_grid[i] : gradient_grid[i][o] = {}
    /\ gradient[i] = {} /\ scalar_field[i] = {}
    /\ gen_log[i] = <<>>
    /\ \A e \in render_cache : ~FieldEq(e.key.self, params[i])

\* the accesses that read octave layers and gradient grids
GridReaders == {"gradient_grid", "gradient", "scalar_field", "render_noise"}

\* a derived value of instance i comes into existence only in a call on i
\* that needs it
C24_Step ==
    \A i \in Insts :
        /\ (generator'[i] # generator[i] \/ octave_layers'[i] # octave_layers[i]
            \/ gradient_grid'[i] # gradient_grid[i] \/ gen_log'[i] # gen_log[i])
           => (last'.inst = i /\ last'.op \in GridReaders)
        /\ \A o \in DOMAIN gradient_grid[i] :
              (gradient_grid'[i][o] # gradient_grid[i][o] /\ last'.op = "gradient_grid")
              => last'.args = <<o>>
        /\ gradient'[i] # gradient[i]
           => (last'.inst = i /\ last'.op \in GridReaders \ {"gradient_grid"})
        /\ scalar_field'[i] # scalar_field[i]
           => (last'.inst = i /\ last'.op = "scalar_field")
        /\ render_cache' # render_cache => last'.op = "render_noise"

\* C24: constructing a PerlinNoiseScreen computes nothing (no generator, no
\* octave layers, no random draw, no gradient, scalar field or render), and
\* each of these comes into existence only in an access that needs it.
C24_LazyConstruction ==
    /\ [](last = NoCall => \A i \in Insts : Fresh(i))
    /\ [][C24_Step]_vars

\* the second octave's grid of A was read: A's generator and that grid exist,
\* its first octave's grid, gradient and scalar field do not, and B is as
\* constructed
C24_Witness ==
    /\ last.op = "gradient_grid" /\ last.inst = "A" /\ last.args = <<1>>
    /\ generator["A"] # {} /\ gradient_grid["A"][1] # {}
    /\ gradient_grid["A"][0] = {} /\ gradient["A"] = {} /\ scalar_field["A"] = {}
    /\ generator["B"] = {} /\ octave_layers["B"] = {} /\ gen_log["B"] = <<>>

\* C25: reading gradient never fails: every lower octave is queried only at
\* coordinates inside its interpolation domain, also when the base shape has
\* an axis of extent 1, so the read returns the composite gradient.
C25_GradientNeverOutOfBounds ==
    last.op = "gradient" => (last.raised = "" /\ gradient[last.inst] # {})

\* C26: Canvas.perlin_noise_canvas(shape, size, render_size, seed, octaves,
\* magnitude, density) succeeds, and the screen attached to the canvas it
\* returns has the shape, seed, octaves and density of the arguments.
C26_CanvasCarriesScreen ==
    last.op = "perlin_noise_canvas"
    => /\ last.raised = ""
       /\ \E screen \in last.ret :
             /\ screen.shape = last.args[1]
             /\ screen.seed = last.args[4]
             /\ screen.octaves = last.args[5]
             /\ screen.density = last.args[7]

SelectedChildren ==
    {n \in container.managed : container.children[n + 1].selected}

\* C28: after any sequence of on_select(index) calls at most one managed
\* child is selected, and after an on_select that returned, the child at the
\* given index is the selected one and current_selected refers to it.
C28_SingleSelection ==
    /\ Cardinality(SelectedChildren) <= 1
    /\ (last.op = "on_select" /\ last.raised = "")
       => /\ SelectedChildren = {last.args[1]}
          /\ container.current_selected = {last.args[1]}

====
